---- MODULE Spec2Model ----
(***************************************************************************)
(* Model of the heuristic projection engine of backend/goomi_app.py:       *)
(* team_stats_from_last, h2h_stats, make_projection, _obv_make_strength.   *)
(*                                                                         *)
(* Numbers.  Python floats are modelled as exact rationals <<num, den>>    *)
(* kept in lowest terms with den > 0; round(x, 2) is modelled on the exact *)
(* value (nearest hundredth, ties to even).  Python None is the string     *)
(* "None" for labels and flags, NULL (-1) for a missing goal count, and    *)
(* the empty dict/None argument is the function with empty domain.         *)
(***************************************************************************)
EXTENDS Integers, Sequences, FiniteSets, TLC

VARIABLES
    PROJ,        \* config.get("projections"): the configured thresholds
    fn,          \* the function being invoked ("idle" between invocations)
    fixtures,    \* argument of team_stats_from_last / h2h_stats
    team_id,     \* argument of team_stats_from_last
    stats,       \* result of team_stats_from_last
    stats_home,  \* argument of make_projection / _obv_make_strength
    stats_away,  \* argument of make_projection / _obv_make_strength
    h2h,         \* argument of make_projection / _obv_make_strength
    proj,        \* result of make_projection
    obv,         \* result of _obv_make_strength: [side, strength, delta]
    other,       \* a second invocation on another input with the same h2h
    day,         \* the day's fixtures per league, each with what its fetches return
    min_strength,\* argument of obvious_games_calc
    payload,     \* result of obvious_games_calc / serie_b_projections_calc
    memo,        \* an earlier invocation, kept to compare a later one with
    h2h_last,    \* argument of serie_b_projections_calc: the head-to-head window
    now,         \* time.time(), in seconds
    cache,       \* _cache: { key: {"ts", "data"} }
    last_set,    \* the latest _cache_set of the key: when, and with what data
    thr          \* per request thread: the call it is in, its position and locals

vars == <<PROJ, fn, fixtures, team_id, stats, stats_home, stats_away, h2h, proj, obv, other,
          day, min_strength, payload, memo, h2h_last, now, cache, last_set, thr>>

-----------------------------------------------------------------------------
(* Bounds *)

\* length of the fixture list handed to team_stats_from_last
MaxLen == 2
\* recent fixtures of the home and the away team together (make_projection)
MaxFixtures == 3
\* head-to-head meetings behind the h2h record handed to make_projection
MaxH2H == 1
\* head-to-head meetings handed to h2h_stats
MaxMeetings == 3
\* fixtures of one day, all leagues together
MaxDay == 2
\* recent fixtures of the four teams of two compared invocations together
MaxPairFixtures == 2

-----------------------------------------------------------------------------
(* Exact rational arithmetic standing for Python float arithmetic *)

Abs(n) == IF n < 0 THEN -n ELSE n

RECURSIVE GCD(_, _)
GCD(a, b) == IF b = 0 THEN a ELSE GCD(b, a % b)

\* the rational n/d (d # 0) in lowest terms with a positive denominator
Rat(n, d) ==
    LET s == IF d < 0 THEN -1 ELSE 1
        g == GCD(Abs(n), Abs(d))
    IN  <<(s * n) \div g, (s * d) \div g>>

RInt(n)      == <<n, 1>>
RAdd(x, y)   == Rat(x[1] * y[2] + y[1] * x[2], x[2] * y[2])
RSub(x, y)   == Rat(x[1] * y[2] - y[1] * x[2], x[2] * y[2])
RMul(x, y)   == Rat(x[1] * y[1], x[2] * y[2])
RDiv(x, y)   == Rat(x[1] * y[2], x[2] * y[1])
RNeg(x)      == <<-x[1], x[2]>>
RAbs(x)      == <<Abs(x[1]), x[2]>>
RLe(x, y)    == x[1] * y[2] <= y[1] * x[2]
RLt(x, y)    == x[1] * y[2] < y[1] * x[2]
RGe(x, y)    == RLe(y, x)
RMin(x, y)   == IF RLe(x, y) THEN x ELSE y
RMax(x, y)   == IF RGe(x, y) THEN x ELSE y

\* Python round(x, 2)
Round2(x) ==
    LET n == x[1] * 100
        q == n \div x[2]
        r == n - q * x[2]
        up == \/ 2 * r > x[2]
              \/ 2 * r = x[2] /\ q % 2 = 1
    IN  Rat(IF up THEN q + 1 ELSE q, 100)

\* dict.get(key, default)
Get(d, key, default) == IF key \in DOMAIN d THEN d[key] ELSE default

\* Python truthiness of an Optional[dict]: None and {} are falsy
Truthy(d) == DOMAIN d # {}

NULL == -1
EmptyDict == [k \in {} |-> 0]

-----------------------------------------------------------------------------
(* Configuration: module-level thresholds read from PROJ with defaults *)

UNDER35_AVG_MAX == Get(PROJ, "UNDER35_AVG_MAX", <<27, 10>>)
UNDER35_PCT_MIN == Get(PROJ, "UNDER35_PCT_MIN", <<4, 5>>)
FORM_WEIGHT     == Get(PROJ, "FORM_WEIGHT", <<1, 1>>)
DEF_WEIGHT      == Get(PROJ, "DEF_WEIGHT", <<4, 5>>)
HOME_ADV        == Get(PROJ, "HOME_ADV", <<3, 10>>)
DC_THRESHOLD    == Get(PROJ, "DC_THRESHOLD", <<4, 5>>)
H2H_UNDER_BOOST == Get(PROJ, "H2H_UNDER_BOOST", <<3, 20>>)
H2H_DC_BOOST    == Get(PROJ, "H2H_DC_BOOST", <<3, 20>>)

-----------------------------------------------------------------------------
(* team_stats_from_last *)

ZeroAcc == [games |-> 0, goals_for |-> 0, goals_against |-> 0, total_goals |-> 0,
            conceded_sum |-> 0, under35_count |-> 0, form_points |-> 0]

\* stats_step without the `else: continue`: a fixture of two other teams is
\* counted as an away game of the team
stats_step_counts_other(acc, fx, tid) ==
    LET gh == fx.goals.home
        ga == fx.goals.away
        at_home == fx.teams.home.id = tid
        my_goals == IF at_home THEN gh ELSE ga
        op_goals == IF at_home THEN ga ELSE gh
        my_winner == IF at_home THEN fx.teams.home.winner ELSE fx.teams.away.winner
    IN  IF gh = NULL \/ ga = NULL THEN acc
        ELSE [games |-> acc.games + 1,
              goals_for |-> acc.goals_for + my_goals,
              goals_against |-> acc.goals_against + op_goals,
              total_goals |-> acc.total_goals + (gh + ga),
              conceded_sum |-> acc.conceded_sum + op_goals,
              under35_count |-> acc.under35_count + (IF gh + ga < 4 THEN 1 ELSE 0),
              form_points |-> acc.form_points
                              + (IF my_winner = "True" THEN 3
                                 ELSE IF my_winner = "None" THEN 1 ELSE 0)]

\* stats_step in which a defeat wipes the points collected so far
stats_step_resets_on_loss(acc, fx, tid) ==
    LET gh == fx.goals.home
        ga == fx.goals.away
        at_home == fx.teams.home.id = tid
        at_away == fx.teams.away.id = tid
        my_goals == IF at_home THEN gh ELSE ga
        op_goals == IF at_home THEN ga ELSE gh
        my_winner == IF at_home THEN fx.teams.home.winner ELSE fx.teams.away.winner
    IN  IF gh = NULL \/ ga = NULL THEN acc
        ELSE IF ~at_home /\ ~at_away THEN acc
        ELSE [games |-> acc.games + 1,
              goals_for |-> acc.goals_for + my_goals,
              goals_against |-> acc.goals_against + op_goals,
              total_goals |-> acc.total_goals + (gh + ga),
              conceded_sum |-> acc.conceded_sum + op_goals,
              under35_count |-> acc.under35_count + (IF gh + ga < 4 THEN 1 ELSE 0),
              form_points |-> IF my_winner = "True" THEN acc.form_points + 3
                              ELSE IF my_winner = "None" THEN acc.form_points + 1 ELSE 0]

\* stats_step that reads a null goal count as 0 and counts the fixture
stats_step_null_as_zero(acc, fx, tid) ==
    LET gh == IF fx.goals.home = NULL THEN 0 ELSE fx.goals.home
        ga == IF fx.goals.away = NULL THEN 0 ELSE fx.goals.away
        at_home == fx.teams.home.id = tid
        at_away == fx.teams.away.id = tid
        my_goals == IF at_home THEN gh ELSE ga
        op_goals == IF at_home THEN ga ELSE gh
        my_winner == IF at_home THEN fx.teams.home.winner ELSE fx.teams.away.winner
    IN  IF ~at_home /\ ~at_away THEN acc
        ELSE [games |-> acc.games + 1,
              goals_for |-> acc.goals_for + my_goals,
              goals_against |-> acc.goals_against + op_goals,
              total_goals |-> acc.total_goals + (gh + ga),
              conceded_sum |-> acc.conceded_sum + op_goals,
              under35_count |-> acc.under35_count + (IF gh + ga < 4 THEN 1 ELSE 0),
              form_points |-> acc.form_points
                              + (IF my_winner = "True" THEN 3
                                 ELSE IF my_winner = "None" THEN 1 ELSE 0)]

\* stats_step that takes the result from the goals instead of the winner flag
stats_step_result_from_goals(acc, fx, tid) ==
    LET gh == fx.goals.home
        ga == fx.goals.away
        at_home == fx.teams.home.id = tid
        at_away == fx.teams.away.id = tid
        my_goals == IF at_home THEN gh ELSE ga
        op_goals == IF at_home THEN ga ELSE gh
    IN  IF gh = NULL \/ ga = NULL THEN acc
        ELSE IF ~at_home /\ ~at_away THEN acc
        ELSE [games |-> acc.games + 1,
              goals_for |-> acc.goals_for + my_goals,
              goals_against |-> acc.goals_against + op_goals,
              total_goals |-> acc.total_goals + (gh + ga),
              conceded_sum |-> acc.conceded_sum + op_goals,
              under35_count |-> acc.under35_count + (IF gh + ga < 4 THEN 1 ELSE 0),
              form_points |-> acc.form_points
                              + (IF my_goals > op_goals THEN 3
                                 ELSE IF my_goals = op_goals THEN 1 ELSE 0)]

\* one iteration of the loop over the fixtures
stats_step(acc, fx, tid) ==
    LET gh == fx.goals.home
        ga == fx.goals.away
        at_home == fx.teams.home.id = tid
        at_away == fx.teams.away.id = tid
        my_goals == IF at_home THEN gh ELSE ga
        op_goals == IF at_home THEN ga ELSE gh
        my_winner == IF at_home THEN fx.teams.home.winner ELSE fx.teams.away.winner
    IN  IF gh = NULL \/ ga = NULL THEN acc
        ELSE IF ~at_home /\ ~at_away THEN acc
        ELSE [games |-> acc.games + 1,
              goals_for |-> acc.goals_for + my_goals,
              goals_against |-> acc.goals_against + op_goals,
              total_goals |-> acc.total_goals + (gh + ga),
              conceded_sum |-> acc.conceded_sum + op_goals,
              under35_count |-> acc.under35_count + (IF gh + ga < 4 THEN 1 ELSE 0),
              form_points |-> acc.form_points
                              + (IF my_winner = "True" THEN 3
                                 ELSE IF my_winner = "None" THEN 1 ELSE 0)]

RECURSIVE stats_loop(_, _, _, _)
stats_loop(fxs, tid, i, acc) ==
    IF i > Len(fxs) THEN acc
    ELSE stats_loop(fxs, tid, i + 1, stats_step(acc, fxs[i], tid))

\* the value returned once the loop is over
stats_result(acc) ==
    IF acc.games = 0
    THEN [games |-> 0, avg_for |-> RInt(0), avg_against |-> RInt(0), avg_total |-> RInt(0),
          pct_under35 |-> RInt(0), form_points |-> RInt(0), conceded_avg |-> RInt(0)]
    ELSE [games |-> acc.games,
          avg_for |-> Rat(acc.goals_for, acc.games),
          avg_against |-> Rat(acc.goals_against, acc.games),
          avg_total |-> Rat(acc.total_goals, acc.games),
          pct_under35 |-> Rat(acc.under35_count, acc.games),
          form_points |-> Rat(acc.form_points, acc.games),
          conceded_avg |-> Rat(acc.conceded_sum, acc.games)]

team_stats_from_last(fxs, tid) == stats_result(stats_loop(fxs, tid, 1, ZeroAcc))

-----------------------------------------------------------------------------
(* h2h_stats *)

ZeroH2H == [games |-> 0, under35 |-> 0, home_wins |-> 0, away_wins |-> 0, draws |-> 0]

h2h_step(acc, fx) ==
    LET gh == fx.goals.home
        ga == fx.goals.away
        hwin == fx.teams.home.winner
        awin == fx.teams.away.winner
    IN  IF gh = NULL \/ ga = NULL THEN acc
        ELSE [games |-> acc.games + 1,
              under35 |-> acc.under35 + (IF gh + ga < 4 THEN 1 ELSE 0),
              home_wins |-> acc.home_wins + (IF hwin = "True" THEN 1 ELSE 0),
              away_wins |-> acc.away_wins + (IF hwin # "True" /\ awin = "True" THEN 1 ELSE 0),
              draws |-> acc.draws + (IF hwin # "True" /\ awin # "True" THEN 1 ELSE 0)]

RECURSIVE h2h_loop(_, _, _)
h2h_loop(fxs, i, acc) ==
    IF i > Len(fxs) THEN acc ELSE h2h_loop(fxs, i + 1, h2h_step(acc, fxs[i]))

\* h2h_stats in which the draws count for the home side in the dominance
h2h_stats_draws_break_tie(fixtures_h2h, home_id, away_id) ==
    LET acc == h2h_loop(fixtures_h2h, 1, ZeroH2H)
        dominance == IF acc.home_wins + acc.draws > acc.away_wins THEN "home"
                     ELSE IF acc.away_wins > acc.home_wins THEN "away" ELSE "none"
    IN  [games |-> acc.games,
         pct_under35 |-> IF acc.games # 0 THEN Rat(acc.under35, acc.games) ELSE RInt(0),
         home_wins |-> acc.home_wins, away_wins |-> acc.away_wins,
         draws |-> acc.draws, dominance |-> dominance]

h2h_stats(fixtures_h2h, home_id, away_id) ==
    LET acc == h2h_loop(fixtures_h2h, 1, ZeroH2H)
        dominance == IF acc.home_wins > acc.away_wins THEN "home"
                     ELSE IF acc.away_wins > acc.home_wins THEN "away" ELSE "none"
    IN  [games |-> acc.games,
         pct_under35 |-> IF acc.games # 0 THEN Rat(acc.under35, acc.games) ELSE RInt(0),
         home_wins |-> acc.home_wins, away_wins |-> acc.away_wins,
         draws |-> acc.draws, dominance |-> dominance]

-----------------------------------------------------------------------------
(* make_projection *)

both_have_games(sh, sa) == sh.games # 0 /\ sa.games # 0

combined_avg_total(sh, sa) ==
    IF both_have_games(sh, sa)
    THEN RDiv(RAdd(sh.avg_total, sa.avg_total), RInt(2))
    ELSE RInt(0)

combined_pct_under(sh, sa) ==
    IF both_have_games(sh, sa)
    THEN RDiv(RAdd(sh.pct_under35, sa.pct_under35), RInt(2))
    ELSE RInt(0)

\* under_ok without the veto on a single team that runs hot
under_ok_no_veto(sh, sa) ==
    /\ RLe(combined_avg_total(sh, sa), UNDER35_AVG_MAX)
    /\ RGe(combined_pct_under(sh, sa), UNDER35_PCT_MIN)

under_ok(sh, sa) ==
    /\ RLe(combined_avg_total(sh, sa), UNDER35_AVG_MAX)
    /\ RGe(combined_pct_under(sh, sa), UNDER35_PCT_MIN)
    /\ RLt(RMax(sh.avg_total, sa.avg_total), <<16, 5>>)

\* conf_under_base with the two coefficients exchanged
conf_under_base_swapped(sh, sa) ==
    IF both_have_games(sh, sa)
    THEN RMin(RInt(1),
              RMax(RInt(0),
                   RAdd(RAdd(<<1, 2>>,
                             RMul(RSub(UNDER35_AVG_MAX, combined_avg_total(sh, sa)), <<2, 5>>)),
                        RMul(RSub(combined_pct_under(sh, sa), UNDER35_PCT_MIN), <<3, 10>>))))
    ELSE RInt(0)

\* conf_under before the head-to-head reinforcement
conf_under_base(sh, sa) ==
    IF both_have_games(sh, sa)
    THEN RMin(RInt(1),
              RMax(RInt(0),
                   RAdd(RAdd(<<1, 2>>,
                             RMul(RSub(UNDER35_AVG_MAX, combined_avg_total(sh, sa)), <<3, 10>>)),
                        RMul(RSub(combined_pct_under(sh, sa), UNDER35_PCT_MIN), <<2, 5>>))))
    ELSE RInt(0)

home_score(sh) ==
    RAdd(RSub(RMul(sh.form_points, FORM_WEIGHT), RMul(sh.conceded_avg, DEF_WEIGHT)), HOME_ADV)

away_score(sa) ==
    RSub(RMul(sa.form_points, FORM_WEIGHT), RMul(sa.conceded_avg, DEF_WEIGHT))

\* delta > 0 favours the home team, delta < 0 the away team
delta_of(sh, sa) == RSub(home_score(sh), away_score(sa))

\* dc_decision without the min(1.0, ...) on the confidence
dc_decision_unclamped(delta) ==
    IF RGe(delta, DC_THRESHOLD)
    THEN [dc_label |-> "1X", dc_side |-> "home",
          dc_conf |-> RAdd(<<1, 2>>, RDiv(delta, RInt(2)))]
    ELSE IF RGe(RNeg(delta), DC_THRESHOLD)
    THEN [dc_label |-> "X2", dc_side |-> "away",
          dc_conf |-> RAdd(<<1, 2>>, RDiv(RNeg(delta), RInt(2)))]
    ELSE [dc_label |-> "None", dc_side |-> "None", dc_conf |-> RInt(0)]

\* dc_decision that forgets dc_side in the away branch
dc_decision_no_away_side(delta) ==
    IF RGe(delta, DC_THRESHOLD)
    THEN [dc_label |-> "1X", dc_side |-> "home",
          dc_conf |-> RMin(RInt(1), RAdd(<<1, 2>>, RDiv(delta, RInt(2))))]
    ELSE IF RGe(RNeg(delta), DC_THRESHOLD)
    THEN [dc_label |-> "X2", dc_side |-> "None",
          dc_conf |-> RMin(RInt(1), RAdd(<<1, 2>>, RDiv(RNeg(delta), RInt(2))))]
    ELSE [dc_label |-> "None", dc_side |-> "None", dc_conf |-> RInt(0)]

\* dc_decision that forgets to negate delta in the away confidence
dc_decision_away_sign(delta) ==
    IF RGe(delta, DC_THRESHOLD)
    THEN [dc_label |-> "1X", dc_side |-> "home",
          dc_conf |-> RMin(RInt(1), RAdd(<<1, 2>>, RDiv(delta, RInt(2))))]
    ELSE IF RGe(RNeg(delta), DC_THRESHOLD)
    THEN [dc_label |-> "X2", dc_side |-> "away",
          dc_conf |-> RMin(RInt(1), RAdd(<<1, 2>>, RDiv(delta, RInt(2))))]
    ELSE [dc_label |-> "None", dc_side |-> "None", dc_conf |-> RInt(0)]

\* dc_decision that adds the whole |delta| instead of half of it
dc_decision_no_halving(delta) ==
    IF RGe(delta, DC_THRESHOLD)
    THEN [dc_label |-> "1X", dc_side |-> "home",
          dc_conf |-> RMin(RInt(1), RAdd(<<1, 2>>, delta))]
    ELSE IF RGe(RNeg(delta), DC_THRESHOLD)
    THEN [dc_label |-> "X2", dc_side |-> "away",
          dc_conf |-> RMin(RInt(1), RAdd(<<1, 2>>, RNeg(delta)))]
    ELSE [dc_label |-> "None", dc_side |-> "None", dc_conf |-> RInt(0)]

\* dc_decision whose confidence is |delta|/2 without the 0.5 it starts from
dc_decision_no_base(delta) ==
    IF RGe(delta, DC_THRESHOLD)
    THEN [dc_label |-> "1X", dc_side |-> "home",
          dc_conf |-> RMin(RInt(1), RDiv(delta, RInt(2)))]
    ELSE IF RGe(RNeg(delta), DC_THRESHOLD)
    THEN [dc_label |-> "X2", dc_side |-> "away",
          dc_conf |-> RMin(RInt(1), RDiv(RNeg(delta), RInt(2)))]
    ELSE [dc_label |-> "None", dc_side |-> "None", dc_conf |-> RInt(0)]

\* the decisive double chance (with threshold), before reinforcement
dc_decision(delta) ==
    IF RGe(delta, DC_THRESHOLD)
    THEN [dc_label |-> "1X", dc_side |-> "home",
          dc_conf |-> RMin(RInt(1), RAdd(<<1, 2>>, RDiv(delta, RInt(2))))]
    ELSE IF RGe(RNeg(delta), DC_THRESHOLD)
    THEN [dc_label |-> "X2", dc_side |-> "away",
          dc_conf |-> RMin(RInt(1), RAdd(<<1, 2>>, RDiv(RNeg(delta), RInt(2))))]
    ELSE [dc_label |-> "None", dc_side |-> "None", dc_conf |-> RInt(0)]

\* `if h2h and h2h.get("games", 0) > 0`
h2h_has_games(h) == Truthy(h) /\ Get(h, "games", 0) > 0

\* h2h_reinforce_under that does not ask for under_ok
h2h_reinforce_under_any(conf_under, uok, h) ==
    IF h2h_has_games(h) /\ RGe(Get(h, "pct_under35", RInt(0)), UNDER35_PCT_MIN)
    THEN RMin(RInt(1), RAdd(conf_under, H2H_UNDER_BOOST))
    ELSE conf_under

h2h_reinforce_under(conf_under, uok, h) ==
    IF h2h_has_games(h) /\ uok /\ RGe(Get(h, "pct_under35", RInt(0)), UNDER35_PCT_MIN)
    THEN RMin(RInt(1), RAdd(conf_under, H2H_UNDER_BOOST))
    ELSE conf_under

\* h2h_reinforce_dc without the min(1.0, ...) after the boost
h2h_reinforce_dc_unclamped(dc, h) ==
    IF h2h_has_games(h) /\ dc.dc_label = "1X" /\ Get(h, "dominance", "None") = "home"
    THEN RAdd(dc.dc_conf, H2H_DC_BOOST)
    ELSE IF h2h_has_games(h) /\ dc.dc_label = "X2" /\ Get(h, "dominance", "None") = "away"
    THEN RAdd(dc.dc_conf, H2H_DC_BOOST)
    ELSE dc.dc_conf

h2h_reinforce_dc(dc, h) ==
    IF h2h_has_games(h) /\ dc.dc_label = "1X" /\ Get(h, "dominance", "None") = "home"
    THEN RMin(RInt(1), RAdd(dc.dc_conf, H2H_DC_BOOST))
    ELSE IF h2h_has_games(h) /\ dc.dc_label = "X2" /\ Get(h, "dominance", "None") = "away"
    THEN RMin(RInt(1), RAdd(dc.dc_conf, H2H_DC_BOOST))
    ELSE dc.dc_conf

\* lean_of that leaves the signal empty when delta is exactly 0
lean_of_none_on_zero(delta) ==
    [lean_label |-> IF RLt(RInt(0), delta) THEN "1X"
                    ELSE IF RLt(delta, RInt(0)) THEN "X2" ELSE "None",
     lean_side |-> IF RLt(RInt(0), delta) THEN "home"
                   ELSE IF RLt(delta, RInt(0)) THEN "away" ELSE "None",
     lean_conf |-> Round2(RMin(<<49, 100>>, RMax(<<1, 10>>, RDiv(RAbs(delta), RInt(2)))))]

\* lean_of with delta > 0 in place of delta >= 0
lean_of_strict(delta) ==
    [lean_label |-> IF RLt(RInt(0), delta) THEN "1X" ELSE "X2",
     lean_side |-> IF RLt(RInt(0), delta) THEN "home" ELSE "away",
     lean_conf |-> Round2(RMin(<<49, 100>>, RMax(<<1, 10>>, RDiv(RAbs(delta), RInt(2)))))]

\* the weak signal, computed whether or not the threshold was met
lean_of(delta) ==
    [lean_label |-> IF RGe(delta, RInt(0)) THEN "1X" ELSE "X2",
     lean_side |-> IF RGe(delta, RInt(0)) THEN "home" ELSE "away",
     lean_conf |-> Round2(RMin(<<49, 100>>, RMax(<<1, 10>>, RDiv(RAbs(delta), RInt(2)))))]

make_projection(sh, sa, h) ==
    LET uok == under_ok(sh, sa)
        delta == delta_of(sh, sa)
        dc == dc_decision(delta)
        conf_under == h2h_reinforce_under(conf_under_base(sh, sa), uok, h)
        dc_conf == h2h_reinforce_dc(dc, h)
        lean == lean_of(delta)
    IN  [under35 |-> uok,
         conf_under35 |-> Round2(conf_under),
         double_chance |-> dc.dc_label,
         conf_double_chance |-> Round2(dc_conf),
         dc_side |-> dc.dc_side,
         lean_double_chance |-> lean.lean_label,
         lean_conf_double_chance |-> lean.lean_conf,
         lean_dc_side |-> lean.lean_side,
         combined |-> [avg_total_goals |-> Round2(combined_avg_total(sh, sa)),
                       pct_under35 |-> Round2(combined_pct_under(sh, sa))]]

-----------------------------------------------------------------------------
(* _obv_make_strength *)

\* obv_side that gives a level delta to the away side
obv_side_strict(delta) == IF RLt(RInt(0), delta) THEN "home" ELSE "away"

obv_side(delta) == IF RGe(delta, RInt(0)) THEN "home" ELSE "away"

obv_base_strength(delta) == RMin(RInt(1), RMax(RInt(0), RDiv(RAbs(delta), RInt(2))))

\* obv_reinforce that adds the bonus for a dominance of either side
obv_reinforce_any_dominance(base_strength, side, h) ==
    IF /\ h2h_has_games(h)
       /\ Get(h, "dominance", "None") \in {"home", "away"}
    THEN RMin(RInt(1), RAdd(base_strength, <<1, 10>>))
    ELSE base_strength

obv_reinforce(base_strength, side, h) ==
    IF /\ h2h_has_games(h)
       /\ \/ side = "home" /\ Get(h, "dominance", "None") = "home"
          \/ side = "away" /\ Get(h, "dominance", "None") = "away"
    THEN RMin(RInt(1), RAdd(base_strength, <<1, 10>>))
    ELSE base_strength

obv_make_strength(sh, sa, h) ==
    LET delta == delta_of(sh, sa)
        side == obv_side(delta)
    IN  [side |-> side,
         strength |-> Round2(obv_reinforce(obv_base_strength(delta), side, h)),
         delta |-> delta]

-----------------------------------------------------------------------------
(* Inputs: what the fixture source can hand to the engine *)

HomeId  == 1
AwayId  == 2
OtherId == 3

\* the goals one side scores in a fixture: totals of 3 (under 3.5) and of 4
\* (not under), wins, draws and losses all occur
Goals == {0, 1, 2}

\* the winner flag the source reports for the side that scored `mine`
winner_flag(mine, theirs) ==
    IF mine = NULL \/ theirs = NULL THEN "None"
    ELSE IF mine > theirs THEN "True"
    ELSE IF mine < theirs THEN "False" ELSE "None"

\* a fixture as the source delivers it
Fixture(hid, aid, gh, ga) ==
    [teams |-> [home |-> [id |-> hid, winner |-> winner_flag(gh, ga)],
                away |-> [id |-> aid, winner |-> winner_flag(ga, gh)]],
     goals |-> [home |-> gh, away |-> ga]]

\* a fixture level on goals and decided on penalties: the source flags a winner
PenaltyFixture(hid, aid, g, home_through) ==
    [teams |-> [home |-> [id |-> hid, winner |-> IF home_through THEN "True" ELSE "False"],
                away |-> [id |-> aid, winner |-> IF home_through THEN "False" ELSE "True"]],
     goals |-> [home |-> g, away |-> g]]

\* fixtures seen from the team whose statistics are asked for (HomeId):
\* it plays at home, away, or is on neither side; either goal count may be null
FixtureSet ==
    {Fixture(ids[1], ids[2], gh, ga) :
        ids \in {<<HomeId, OtherId>>, <<OtherId, HomeId>>},
        gh \in Goals \cup {NULL}, ga \in Goals \cup {NULL}}
    \cup
    {PenaltyFixture(ids[1], ids[2], g, ht) :
        ids \in {<<HomeId, OtherId>>, <<OtherId, HomeId>>},
        g \in Goals, ht \in BOOLEAN}
    \cup
    {Fixture(AwayId, OtherId, 1, 0), Fixture(AwayId, OtherId, NULL, NULL)}

SeqsUpTo(S, n) == UNION {[1..k -> S] : k \in 0..n}

FixtureLists == SeqsUpTo(FixtureSet, MaxLen)

\* the statistics of a team over n played fixtures
StatsByLen ==
    [n \in 0..(IF MaxFixtures > MaxPairFixtures THEN MaxFixtures ELSE MaxPairFixtures) |->
        {team_stats_from_last([i \in 1..n |-> Fixture(HomeId, OtherId, l[i][1], l[i][2])], HomeId) :
            l \in [1..n -> Goals \X Goals]}]

\* home and away statistics over at most `budget` recent fixtures in all
StatsPairs(budget) ==
    UNION {StatsByLen[ab[1]] \X StatsByLen[ab[2]] :
            ab \in {x \in (0..budget) \X (0..budget) : x[1] + x[2] <= budget}}

\* two inputs (home, away, home, away) over at most `budget` fixtures in all
StatsQuads(budget) ==
    UNION {StatsByLen[q[1]] \X StatsByLen[q[2]] \X StatsByLen[q[3]] \X StatsByLen[q[4]] :
            q \in {x \in (0..budget) \X (0..budget) \X (0..budget) \X (0..budget) :
                    x[1] + x[2] + x[3] + x[4] <= budget}}

\* meetings of the two teams, at either ground, played or not yet played
MeetingSet ==
    {Fixture(ids[1], ids[2], g[1], g[2]) :
        ids \in {<<HomeId, AwayId>>, <<AwayId, HomeId>>},
        g \in (Goals \X Goals) \cup {<<NULL, NULL>>}}

MeetingLists == SeqsUpTo(MeetingSet, MaxH2H)

\* `h2h_stats(h2h_list, ...) if h2h_list else {"games": 0}`
h2h_of(h2h_list) ==
    IF Len(h2h_list) > 0 THEN h2h_stats(h2h_list, HomeId, AwayId) ELSE [games |-> 0]

\* the h2h argument: omitted (None), or what the callers build
H2HSet == {EmptyDict} \cup {h2h_of(l) : l \in MeetingLists}

\* the [projections] section of config.yaml
ConfigSet ==
    { EmptyDict,
      [UNDER35_PCT_MIN |-> <<0, 1>>],
      [H2H_UNDER_BOOST |-> <<3, 2>>, H2H_DC_BOOST |-> <<3, 2>>] }

-----------------------------------------------------------------------------
(* The day's fixtures: obvious_games_calc and serie_b_projections_calc *)

LEAGUE_IDS == [br_serie_a |-> 71, br_serie_b |-> 72]

\* int(PROJ.get("H2H_LAST", 5))
H2H_LAST == Get(PROJ, "H2H_LAST", 5)

\* Python round(x, 3)
Round3(x) ==
    LET n == x[1] * 1000
        q == n \div x[2]
        r == n - q * x[2]
        up == \/ 2 * r > x[2]
              \/ 2 * r = x[2] /\ q % 2 = 1
    IN  Rat(IF up THEN q + 1 ELSE q, 1000)

\* a fixture of the day as the source lists it; a missing id is 0 and a
\* missing name "" (both falsy, as None is)
DayFixture(lid, iso, hid, aid, hname, aname) ==
    [league |-> [name |-> lid],
     fixture |-> [date |-> iso],
     teams |-> [home |-> [id |-> hid, name |-> hname],
                away |-> [id |-> aid, name |-> aname]]]

\* fb_fixtures_by_league_date(lid, d_obj): the day's list of the league
fb_fixtures_by_league_date(world, lid) == world[lid]

\* fb_fixtures_last_n(team_id, last) for the two teams of a listed fixture:
\* the recent fixtures after sorting and de-duplication, [] when the request
\* failed
fb_fixtures_last_n(slot, side) == IF side = "home" THEN slot.last_home ELSE slot.last_away

\* fb_headtohead(home_id, away_id, last_n): the latest max(1, min(last_n, 20))
\* meetings, [] when the request failed
fb_headtohead(slot, last_n) ==
    LET n == IF last_n < 1 THEN 1 ELSE IF last_n > 20 THEN 20 ELSE last_n
    IN  SubSeq(slot.h2h_list, 1, IF Len(slot.h2h_list) < n THEN Len(slot.h2h_list) ELSE n)

\* all_fixtures += fb_fixtures_by_league_date(lid, d_obj) or []
RECURSIVE all_fixtures_of(_, _, _)
all_fixtures_of(world, leagues, i) ==
    IF i > Len(leagues) THEN <<>>
    ELSE fb_fixtures_by_league_date(world, leagues[i]) \o all_fixtures_of(world, leagues, i + 1)

\* `if strength > float(min_strength)`: the minimum itself is not enough
obv_keep_strict(strength, ms) == RLt(ms, strength)

\* `if strength >= float(min_strength)`
obv_keep(strength, ms) == RGe(strength, ms)

\* one iteration of the loop of obvious_games_calc
obv_fixture_step(results, slot, ms, h2hl) ==
    LET fx == slot.fx
        hid == fx.teams.home.id
        aid == fx.teams.away.id
        hname == fx.teams.home.name
        aname == fx.teams.away.name
        s_home == team_stats_from_last(fb_fixtures_last_n(slot, "home"), hid)
        s_away == team_stats_from_last(fb_fixtures_last_n(slot, "away"), aid)
        h == h2h_of(fb_headtohead(slot, h2hl))
        r == obv_make_strength(s_home, s_away, h)
    IN  IF ~(hid # 0 /\ aid # 0) THEN results
        ELSE IF obv_keep(r.strength, ms)
        THEN Append(results,
                [league |-> fx.league.name,
                 date_utc |-> fx.fixture.date,
                 home |-> hname,
                 away |-> aname,
                 favorite_side |-> r.side,
                 favorite_name |-> IF r.side = "home" THEN hname ELSE aname,
                 strength |-> r.strength,
                 delta_raw |-> Round3(r.delta),
                 recent |-> [home |-> s_home, away |-> s_away],
                 h2h |-> h])
        ELSE results

RECURSIVE obv_loop(_, _, _, _, _)
obv_loop(all_fixtures, i, results, ms, h2hl) ==
    IF i > Len(all_fixtures) THEN results
    ELSE obv_loop(all_fixtures, i + 1,
                  obv_fixture_step(results, all_fixtures[i], ms, h2hl), ms, h2hl)

\* sort_insert that puts an entry in front of the entries of equal strength
sort_insert_before_ties(sorted, e) ==
    LET k == Cardinality({j \in 1..Len(sorted) : RLt(e.strength, sorted[j].strength)})
    IN  SubSeq(sorted, 1, k) \o <<e>> \o SubSeq(sorted, k + 1, Len(sorted))

\* an entry takes its place behind the entries that are at least as strong
sort_insert(sorted, e) ==
    LET k == Cardinality({j \in 1..Len(sorted) : RGe(sorted[j].strength, e.strength)})
    IN  SubSeq(sorted, 1, k) \o <<e>> \o SubSeq(sorted, k + 1, Len(sorted))

\* results.sort(key=lambda x: x["strength"], reverse=True): a stable sort
RECURSIVE results_sort(_)
results_sort(results) ==
    IF results = <<>> THEN <<>>
    ELSE sort_insert(results_sort(SubSeq(results, 1, Len(results) - 1)),
                     results[Len(results)])

obvious_games_calc(world, ms, h2hl) ==
    LET leagues == <<LEAGUE_IDS.br_serie_a, LEAGUE_IDS.br_serie_b>>
        all_fixtures == all_fixtures_of(world, leagues, 1)
        results == results_sort(obv_loop(all_fixtures, 1, <<>>, ms, h2hl))
    IN  [count |-> Len(results),
         min_strength |-> ms,
         games |-> results]

\* proj_fixture_step that leaves out a fixture when the recent fixtures of one
\* of its teams could not be fetched
proj_fixture_step_needs_data(games, slot, h2hl) ==
    LET fx == slot.fx
        home_id == fx.teams.home.id
        away_id == fx.teams.away.id
        home_name == fx.teams.home.name
        away_name == fx.teams.away.name
        last_home == fb_fixtures_last_n(slot, "home")
        last_away == fb_fixtures_last_n(slot, "away")
        s_home == team_stats_from_last(last_home, home_id)
        s_away == team_stats_from_last(last_away, away_id)
        h == h2h_of(fb_headtohead(slot, h2hl))
    IN  IF ~(home_id # 0 /\ away_id # 0 /\ home_name # "" /\ away_name # "") THEN games
        ELSE IF last_home = <<>> \/ last_away = <<>> THEN games
        ELSE Append(games,
                [match |-> [league |-> fx.league.name,
                            date_utc |-> fx.fixture.date,
                            home_id |-> home_id, away_id |-> away_id,
                            home |-> home_name, away |-> away_name],
                 projection |-> make_projection(s_home, s_away, h),
                 metrics |-> [recent |-> [home |-> s_home, away |-> s_away], h2h |-> h]])

\* one iteration of the loop of serie_b_projections_calc
proj_fixture_step(games, slot, h2hl) ==
    LET fx == slot.fx
        home_id == fx.teams.home.id
        away_id == fx.teams.away.id
        home_name == fx.teams.home.name
        away_name == fx.teams.away.name
        last_home == fb_fixtures_last_n(slot, "home")
        last_away == fb_fixtures_last_n(slot, "away")
        s_home == team_stats_from_last(last_home, home_id)
        s_away == team_stats_from_last(last_away, away_id)
        h == h2h_of(fb_headtohead(slot, h2hl))
    IN  IF ~(home_id # 0 /\ away_id # 0 /\ home_name # "" /\ away_name # "") THEN games
        ELSE Append(games,
                [match |-> [league |-> fx.league.name,
                            date_utc |-> fx.fixture.date,
                            home_id |-> home_id, away_id |-> away_id,
                            home |-> home_name, away |-> away_name],
                 projection |-> make_projection(s_home, s_away, h),
                 metrics |-> [recent |-> [home |-> s_home, away |-> s_away], h2h |-> h]])

RECURSIVE proj_loop(_, _, _, _)
proj_loop(fxs, i, games, h2hl) ==
    IF i > Len(fxs) THEN games
    ELSE proj_loop(fxs, i + 1, proj_fixture_step(games, fxs[i], h2hl), h2hl)

serie_b_projections_calc(world, h2hl) ==
    [league_id |-> LEAGUE_IDS.br_serie_b,
     games |-> proj_loop(fb_fixtures_by_league_date(world, LEAGUE_IDS.br_serie_b), 1, <<>>, h2hl),
     thresholds |-> [UNDER35_AVG_MAX |-> UNDER35_AVG_MAX,
                     UNDER35_PCT_MIN |-> UNDER35_PCT_MIN,
                     FORM_WEIGHT |-> FORM_WEIGHT,
                     DEF_WEIGHT |-> DEF_WEIGHT,
                     HOME_ADV |-> HOME_ADV,
                     DC_THRESHOLD |-> DC_THRESHOLD,
                     H2H_LAST |-> H2H_LAST,
                     H2H_UNDER_BOOST |-> H2H_UNDER_BOOST,
                     H2H_DC_BOOST |-> H2H_DC_BOOST]]

\* what fb_fixtures_last_n returns for the home team of a listed fixture
\* (a 0-0 draw, a 1-0 win) and for the away team (two fixtures, worth 1.1,
\* 0.3 and 0.8 to the away side, or three defeats conceding 4 goals, worth
\* -1.0667); <<>> is a failed or empty request
HomeDrew == <<Fixture(HomeId, OtherId, 0, 0)>>
HomeWon  == <<Fixture(HomeId, OtherId, 1, 0)>>
AwayEven == <<Fixture(AwayId, OtherId, 1, 0), Fixture(OtherId, AwayId, 1, 0)>>
AwayWeak == <<Fixture(AwayId, OtherId, 2, 1), Fixture(OtherId, AwayId, 2, 0)>>
AwayGood == <<Fixture(AwayId, OtherId, 2, 1), Fixture(OtherId, AwayId, 2, 2)>>
AwayPoor == <<Fixture(AwayId, OtherId, 0, 1), Fixture(OtherId, AwayId, 1, 0),
              Fixture(OtherId, AwayId, 2, 0)>>

\* what fb_headtohead returns: a home win, an away win
HomeBeatAway == <<Fixture(HomeId, AwayId, 1, 0)>>
AwayBeatHome == <<Fixture(HomeId, AwayId, 0, 1)>>

\* a listed fixture with what the source returns for it
DayCase(hid, aid, hname, aname, lh, la, hl) ==
    [home_id |-> hid, away_id |-> aid, home |-> hname, away |-> aname,
     last_home |-> lh, last_away |-> la, h2h_list |-> hl]

\* listed fixtures with both ids and names: every request failed; deltas of
\* 0.2, 1.0 and 2.5 without head-to-head; a reinforced 0.65 and one that is
\* not; away favourites; strengths that tie; a strength with more than two
\* decimals; and fixtures with an id or a name missing
DayCases ==
    {DayCase(HomeId, AwayId, "home", "away", c[1], c[2], c[3]) :
        c \in { <<<<>>, <<>>, <<>>>>,
                <<HomeDrew, AwayEven, <<>>>>,
                <<HomeDrew, AwayWeak, <<>>>>,
                <<HomeWon, AwayGood, <<>>>>,
                <<HomeDrew, <<>>, HomeBeatAway>>,
                <<HomeDrew, <<>>, AwayBeatHome>>,
                <<<<>>, AwayEven, AwayBeatHome>>,
                <<<<>>, AwayGood, <<>>>>,
                <<HomeWon, <<>>, <<>>>>,
                <<HomeWon, AwayEven, HomeBeatAway>>,
                <<<<>>, AwayPoor, <<>>>> }}
    \cup
    {DayCase(ids[1], ids[2], ids[3], "away", HomeWon, <<>>, <<>>) :
        ids \in {<<0, AwayId, "home">>, <<HomeId, 0, "home">>, <<HomeId, AwayId, "">>}}

\* the case c listed in league lid with kickoff iso
Slot(lid, iso, c) ==
    [fx |-> DayFixture(lid, iso, c.home_id, c.away_id, c.home, c.away),
     last_home |-> c.last_home, last_away |-> c.last_away, h2h_list |-> c.h2h_list]

\* the day: the first k cases are listed in Serie A, the others in Serie B
World(cases, k) ==
    (LEAGUE_IDS.br_serie_a :> [i \in 1..k |-> Slot(LEAGUE_IDS.br_serie_a, i, cases[i])])
    @@ (LEAGUE_IDS.br_serie_b :>
            [i \in 1..(Len(cases) - k) |-> Slot(LEAGUE_IDS.br_serie_b, i, cases[k + i])])

\* min_strength: the default 0.75, a lower one, and one with three decimals
MinStrengthSet == {<<3, 4>>, <<1, 4>>, <<683, 1000>>}

\* h2h_last of obvious_games_calc: its default
ObvH2HLast == 3

\* h2h_last of serie_b_projections_calc: its default 5, the `h2h_last` of the
\* query string (3, 1), or the configured H2H_LAST when the query has none
H2HLastSet == {5, 3, 1, H2H_LAST}

-----------------------------------------------------------------------------
(* The fixture cache: _cache_get, _cache_set, fb_fixtures_by_league_date *)

CACHE_TTL_SECONDS == 60

\* the clock is read in steps of half a TTL, MaxClock steps at most
TickSeconds == 30
MaxClock == 3

\* f"fb:league:{league_id}:date:{d.isoformat()}" of one league and date
CacheKey == "fb:league:72:date:d"

\* request threads of the threaded server
RequestThreads == {1, 2}

\* a returned value: None, or a list
None == [is_none |-> TRUE, value |-> <<>>]
Some(v) == [is_none |-> FALSE, value |-> v]

\* `_cache.get(key)`: the entry, or None
NoItem == [found |-> FALSE, ts |-> 0, data |-> <<>>]
cache_item(c, key) ==
    IF key \in DOMAIN c THEN [found |-> TRUE, ts |-> c[key].ts, data |-> c[key].data]
    ELSE NoItem

\* `if time.time() - item["ts"] < CACHE_TTL_SECONDS`: an entry of exactly the
\* TTL is stale
cache_fresh_strict(item, t) == t - item.ts < CACHE_TTL_SECONDS

\* `if time.time() - item["ts"] <= CACHE_TTL_SECONDS`
cache_fresh(item, t) == t - item.ts <= CACHE_TTL_SECONDS

\* `_cache.pop(key, None)`
cache_pop(c, key) == [k \in DOMAIN c \ {key} |-> c[k]]

\* `_cache[key] = {"ts": time.time(), "data": data}`
cache_set(c, key, t, data) == (key :> [ts |-> t, data |-> data]) @@ c

\* what the fixtures endpoint can answer: a list in "response", or an error
LiveLists ==
    {<<>>,
     <<DayFixture(LEAGUE_IDS.br_serie_b, 1, HomeId, AwayId, "home", "away")>>,
     <<DayFixture(LEAGUE_IDS.br_serie_b, 2, AwayId, HomeId, "away", "home")>>}
NoAnswer == [ok |-> FALSE, response |-> <<>>]
UpstreamAnswers == {[ok |-> TRUE, response |-> l] : l \in LiveLists} \cup {NoAnswer}

\* fb_fixture_generic(params): the "response" list, [] when the request failed
fb_fixture_generic(answer) == IF answer.ok THEN answer.response ELSE <<>>

\* the latest _cache_set of the key
NoSet == [found |-> FALSE, ts |-> 0, data |-> <<>>, failed |-> FALSE]

\* a thread outside any call
IdleThread ==
    [pc |-> "idle", op |-> "none", item |-> NoItem, at |-> 0, cached |-> None,
     answer |-> NoAnswer, contacted |-> FALSE, ret |-> None, before |-> NoSet]

\* the cache of a process that has just started, with n request threads
CacheIdle(n) ==
    /\ now = 0
    /\ cache = EmptyDict
    /\ last_set = NoSet
    /\ thr = [t \in 1..n |-> IdleThread]

engine_vars == <<PROJ, fn, fixtures, team_id, stats, stats_home, stats_away, h2h, proj, obv,
                 other, day, min_strength, payload, memo, h2h_last>>

-----------------------------------------------------------------------------
(* The state machine: one invocation at a time, on inputs the source can give *)

NoValue == EmptyDict

Idle ==
    /\ fn = "idle"
    /\ fixtures = <<>>
    /\ team_id = 0
    /\ stats = NoValue
    /\ stats_home = NoValue
    /\ stats_away = NoValue
    /\ h2h = NoValue
    /\ proj = NoValue
    /\ obv = NoValue
    /\ other = NoValue
    /\ day = <<>>
    /\ min_strength = NoValue
    /\ payload = NoValue
    /\ h2h_last = 0

Init == PROJ \in ConfigSet /\ memo = NoValue /\ Idle /\ CacheIdle(0)

\* config.yaml without a [projections] section: every threshold at its default
InitDefault == PROJ = EmptyDict /\ memo = NoValue /\ Idle /\ CacheIdle(0)

\* team_stats_from_last(fixtures, team_id)
TeamStats ==
    /\ fn = "idle"
    /\ \E fxs \in FixtureLists :
        /\ fixtures' = fxs
        /\ team_id' = HomeId
        /\ stats' = team_stats_from_last(fxs, HomeId)
    /\ fn' = "team_stats_from_last"
    /\ UNCHANGED <<PROJ, stats_home, stats_away, h2h, proj, obv, other,
                 day, min_strength, payload, memo,
                 h2h_last, now, cache, last_set, thr>>

\* h2h_stats(fixtures_h2h, home_id, away_id)
H2HStats ==
    /\ fn = "idle"
    /\ \E fxs \in SeqsUpTo(MeetingSet, MaxMeetings) :
        /\ fixtures' = fxs
        /\ h2h' = h2h_stats(fxs, HomeId, AwayId)
    /\ fn' = "h2h_stats"
    /\ UNCHANGED <<PROJ, team_id, stats, stats_home, stats_away, proj, obv, other,
                 day, min_strength, payload, memo,
                 h2h_last, now, cache, last_set, thr>>

\* make_projection(stats_home, stats_away, h2h)
Project ==
    /\ fn = "idle"
    /\ \E p \in StatsPairs(MaxFixtures), h \in H2HSet :
        /\ stats_home' = p[1]
        /\ stats_away' = p[2]
        /\ h2h' = h
        /\ proj' = make_projection(p[1], p[2], h)
    /\ fn' = "make_projection"
    /\ UNCHANGED <<PROJ, fixtures, team_id, stats, obv, other,
                 day, min_strength, payload, memo,
                 h2h_last, now, cache, last_set, thr>>

\* _obv_make_strength(stats_home, stats_away, h2h)
ObvStrength ==
    /\ fn = "idle"
    /\ \E p \in StatsPairs(MaxFixtures), h \in H2HSet :
        /\ stats_home' = p[1]
        /\ stats_away' = p[2]
        /\ h2h' = h
        /\ obv' = obv_make_strength(p[1], p[2], h)
    /\ fn' = "_obv_make_strength"
    /\ UNCHANGED <<PROJ, fixtures, team_id, stats, proj, other,
                 day, min_strength, payload, memo,
                 h2h_last, now, cache, last_set, thr>>

\* the invocation returns; the functions keep nothing between invocations
Return ==
    /\ fn # "idle"
    /\ fn' = "idle"
    /\ fixtures' = <<>>
    /\ team_id' = 0
    /\ stats' = NoValue
    /\ stats_home' = NoValue
    /\ stats_away' = NoValue
    /\ h2h' = NoValue
    /\ proj' = NoValue
    /\ obv' = NoValue
    /\ other' = NoValue
    /\ day' = <<>>
    /\ min_strength' = NoValue
    /\ payload' = NoValue
    /\ h2h_last' = 0
    /\ UNCHANGED <<PROJ, memo, now, cache, last_set, thr>>

\* the scorer and the ranker on every input the aggregators can produce
Next == Project \/ ObvStrength \/ Return

Spec == Init /\ [][Next]_vars

\* the two aggregators on every fixture list of the source
NextStats == TeamStats \/ H2HStats \/ Return

SpecStats == InitDefault /\ [][NextStats]_vars

\* make_projection and _obv_make_strength on two inputs with the same h2h
Compare ==
    /\ fn = "idle"
    /\ \E q \in StatsQuads(MaxPairFixtures), h \in H2HSet :
        /\ stats_home' = q[1]
        /\ stats_away' = q[2]
        /\ h2h' = h
        /\ proj' = make_projection(q[1], q[2], h)
        /\ obv' = obv_make_strength(q[1], q[2], h)
        /\ other' = [stats_home |-> q[3], stats_away |-> q[4],
                     proj |-> make_projection(q[3], q[4], h),
                     obv |-> obv_make_strength(q[3], q[4], h)]
    /\ fn' = "compare"
    /\ UNCHANGED <<PROJ, fixtures, team_id, stats, day, min_strength, payload, memo,
                 h2h_last, now, cache, last_set, thr>>

NextPair == Compare \/ Return

SpecPair == Init /\ [][NextPair]_vars

\* obvious_games_calc(date_str, None, last, h2h_last, min_strength)
ObviousGames ==
    /\ fn = "idle"
    /\ \E cases \in SeqsUpTo(DayCases, MaxDay), ms \in MinStrengthSet :
        \E k \in 0..Len(cases) :
            /\ day' = World(cases, k)
            /\ min_strength' = ms
            /\ payload' = obvious_games_calc(World(cases, k), ms, ObvH2HLast)
    /\ h2h_last' = ObvH2HLast
    /\ fn' = "obvious_games_calc"
    /\ UNCHANGED <<PROJ, fixtures, team_id, stats, stats_home, stats_away, h2h, proj, obv,
                   other, memo, now, cache, last_set, thr>>

\* serie_b_projections_calc(date_str, last, h2h_last)
Projections ==
    /\ fn = "idle"
    /\ \E cases \in SeqsUpTo(DayCases, MaxDay), h2hl \in H2HLastSet :
        /\ day' = World(cases, 0)
        /\ h2h_last' = h2hl
        /\ payload' = serie_b_projections_calc(World(cases, 0), h2hl)
    /\ fn' = "serie_b_projections_calc"
    /\ UNCHANGED <<PROJ, fixtures, team_id, stats, stats_home, stats_away, h2h, proj, obv,
                   other, min_strength, memo, now, cache, last_set, thr>>

\* the two day-level computations on every day the source can list
NextDay == ObviousGames \/ Projections \/ Return

SpecDay == InitDefault /\ [][NextDay]_vars

\* the invocations that are repeated: each of the four functions on a few
\* inputs (arguments a function does not take are left at their idle value)
RepeatCalls ==
    {[fn |-> "team_stats_from_last", fixtures |-> l, team_id |-> HomeId,
      stats_home |-> NoValue, stats_away |-> NoValue, h2h |-> NoValue] :
        l \in SeqsUpTo({Fixture(HomeId, OtherId, 1, 0), Fixture(OtherId, HomeId, 2, 2),
                        Fixture(HomeId, OtherId, NULL, NULL)}, 2)}
    \cup
    {[fn |-> "h2h_stats", fixtures |-> l, team_id |-> 0,
      stats_home |-> NoValue, stats_away |-> NoValue, h2h |-> NoValue] :
        l \in SeqsUpTo({Fixture(HomeId, AwayId, 1, 0), Fixture(AwayId, HomeId, 2, 2)}, 2)}
    \cup
    {[fn |-> f, fixtures |-> <<>>, team_id |-> 0,
      stats_home |-> team_stats_from_last(lh, HomeId),
      stats_away |-> team_stats_from_last(la, AwayId),
      h2h |-> h] :
        f \in {"make_projection", "_obv_make_strength"},
        lh \in {<<>>, HomeDrew, HomeWon},
        la \in {<<>>, AwayEven, AwayGood},
        h \in {EmptyDict, h2h_of(<<>>), h2h_of(HomeBeatAway)}}

\* Call in which the invocation also rewrites the configured thresholds
Call_rewrites_config ==
    /\ fn = "idle"
    /\ \E c \in RepeatCalls :
        /\ fn' = c.fn
        /\ fixtures' = c.fixtures
        /\ team_id' = c.team_id
        /\ stats_home' = c.stats_home
        /\ stats_away' = c.stats_away
        /\ stats' = IF c.fn = "team_stats_from_last"
                    THEN team_stats_from_last(c.fixtures, c.team_id) ELSE NoValue
        /\ h2h' = IF c.fn = "h2h_stats"
                  THEN h2h_stats(c.fixtures, HomeId, AwayId) ELSE c.h2h
        /\ proj' = IF c.fn = "make_projection"
                   THEN make_projection(c.stats_home, c.stats_away, c.h2h) ELSE NoValue
        /\ obv' = IF c.fn = "_obv_make_strength"
                  THEN obv_make_strength(c.stats_home, c.stats_away, c.h2h) ELSE NoValue
    /\ PROJ' \in ConfigSet
    /\ UNCHANGED <<other, day, min_strength, payload, memo,
                 h2h_last, now, cache, last_set, thr>>

\* one of the four functions is invoked; it reads its arguments and the
\* thresholds and writes nothing but its result
Call ==
    /\ fn = "idle"
    /\ \E c \in RepeatCalls :
        /\ fn' = c.fn
        /\ fixtures' = c.fixtures
        /\ team_id' = c.team_id
        /\ stats_home' = c.stats_home
        /\ stats_away' = c.stats_away
        /\ stats' = IF c.fn = "team_stats_from_last"
                    THEN team_stats_from_last(c.fixtures, c.team_id) ELSE NoValue
        /\ h2h' = IF c.fn = "h2h_stats"
                  THEN h2h_stats(c.fixtures, HomeId, AwayId) ELSE c.h2h
        /\ proj' = IF c.fn = "make_projection"
                   THEN make_projection(c.stats_home, c.stats_away, c.h2h) ELSE NoValue
        /\ obv' = IF c.fn = "_obv_make_strength"
                  THEN obv_make_strength(c.stats_home, c.stats_away, c.h2h) ELSE NoValue
    /\ UNCHANGED <<PROJ, other, day, min_strength, payload, memo,
                 h2h_last, now, cache, last_set, thr>>

\* the invocation returns and its arguments and result are kept for comparison
Remember ==
    /\ fn \in {"team_stats_from_last", "h2h_stats", "make_projection", "_obv_make_strength"}
    /\ memo' = [fn |-> fn, PROJ |-> PROJ, fixtures |-> fixtures, team_id |-> team_id,
                stats_home |-> stats_home, stats_away |-> stats_away,
                h2h |-> h2h, stats |-> stats, proj |-> proj, obv |-> obv]
    /\ fn' = "idle"
    /\ fixtures' = <<>>
    /\ team_id' = 0
    /\ stats' = NoValue
    /\ stats_home' = NoValue
    /\ stats_away' = NoValue
    /\ h2h' = NoValue
    /\ proj' = NoValue
    /\ obv' = NoValue
    /\ UNCHANGED <<PROJ, other, day, min_strength, payload,
                 h2h_last, now, cache, last_set, thr>>

\* invocations of the four functions in any order, repeated at will
NextRepeat == Call \/ Remember \/ Return

SpecRepeat == Init /\ [][NextRepeat]_vars

\* a thread calls _cache_set(key, data): one assignment
CacheSet ==
    \E t \in DOMAIN thr, data \in LiveLists :
        /\ thr[t].pc = "idle"
        /\ cache' = cache_set(cache, CacheKey, now, data)
        /\ last_set' = [found |-> TRUE, ts |-> now, data |-> data, failed |-> FALSE]
        /\ thr' = [thr EXCEPT ![t].pc = "done", ![t].op = "_cache_set"]
        /\ UNCHANGED <<now, engine_vars>>

\* a thread calls _cache_get(key)
CacheGet ==
    \E t \in DOMAIN thr :
        /\ thr[t].pc = "idle"
        /\ thr' = [thr EXCEPT ![t].pc = "lookup", ![t].op = "_cache_get"]
        /\ UNCHANGED <<now, cache, last_set, engine_vars>>

\* a thread calls fb_fixtures_by_league_date(league_id, d), which starts with
\* `cached = _cache_get(cache_key)`
Fixtures ==
    \E t \in DOMAIN thr :
        /\ thr[t].pc = "idle"
        /\ thr' = [thr EXCEPT ![t].pc = "lookup", ![t].op = "fb_fixtures_by_league_date"]
        /\ UNCHANGED <<now, cache, last_set, engine_vars>>

\* _cache_get returns `value` to thread t: the call is over, or
\* fb_fixtures_by_league_date goes on (`if cached is not None: return cached`)
get_returns(t, value, time) ==
    [thr EXCEPT ![t].cached = value,
                ![t].at = time,
                ![t].ret = IF value.is_none THEN None ELSE value,
                ![t].pc = IF thr[t].op = "_cache_get" \/ ~value.is_none
                          THEN "done" ELSE "fetch"]

\* `item = _cache.get(key)`, `if not item: return None`
GetLookup ==
    \E t \in DOMAIN thr :
        /\ thr[t].pc = "lookup"
        /\ LET item == cache_item(cache, CacheKey)
               found == [thr EXCEPT ![t].item = item, ![t].before = last_set,
                                    ![t].pc = "check"]
               missing == [get_returns(t, None, now) EXCEPT ![t].before = last_set]
           IN  thr' = IF item.found THEN found ELSE missing
        /\ UNCHANGED <<now, cache, last_set, engine_vars>>

\* GetCheck with the strict comparison
GetCheck_strict ==
    \E t \in DOMAIN thr :
        /\ thr[t].pc = "check"
        /\ thr' = IF cache_fresh_strict(thr[t].item, now)
                  THEN get_returns(t, Some(thr[t].item.data), now)
                  ELSE [thr EXCEPT ![t].pc = "pop", ![t].at = now]
        /\ UNCHANGED <<now, cache, last_set, engine_vars>>

\* `if time.time() - item["ts"] <= CACHE_TTL_SECONDS: return item["data"]`
GetCheck ==
    \E t \in DOMAIN thr :
        /\ thr[t].pc = "check"
        /\ thr' = IF cache_fresh(thr[t].item, now)
                  THEN get_returns(t, Some(thr[t].item.data), now)
                  ELSE [thr EXCEPT ![t].pc = "pop", ![t].at = now]
        /\ UNCHANGED <<now, cache, last_set, engine_vars>>

\* `_cache.pop(key, None)`, `return None`
GetPop ==
    \E t \in DOMAIN thr :
        /\ thr[t].pc = "pop"
        /\ cache' = cache_pop(cache, CacheKey)
        /\ thr' = get_returns(t, None, thr[t].at)
        /\ UNCHANGED <<now, last_set, engine_vars>>

\* `data = fb_fixture_generic(params)`: the request goes upstream
FixturesFetch ==
    \E t \in DOMAIN thr, answer \in UpstreamAnswers :
        /\ thr[t].pc = "fetch"
        /\ thr' = [thr EXCEPT ![t].answer = answer, ![t].contacted = TRUE,
                              ![t].pc = "store"]
        /\ UNCHANGED <<now, cache, last_set, engine_vars>>

\* FixturesStore that keeps the answer of a failed request out of the cache
FixturesStore_skips_failures ==
    \E t \in DOMAIN thr :
        /\ thr[t].pc = "store"
        /\ LET data == fb_fixture_generic(thr[t].answer)
           IN  /\ cache' = IF thr[t].answer.ok
                           THEN cache_set(cache, CacheKey, now, data) ELSE cache
               /\ last_set' = [found |-> TRUE, ts |-> now, data |-> data,
                               failed |-> ~thr[t].answer.ok]
               /\ thr' = [thr EXCEPT ![t].ret = Some(data), ![t].pc = "done"]
        /\ UNCHANGED <<now, engine_vars>>

\* `_cache_set(cache_key, data)`, `return data`
FixturesStore ==
    \E t \in DOMAIN thr :
        /\ thr[t].pc = "store"
        /\ LET data == fb_fixture_generic(thr[t].answer)
           IN  /\ cache' = cache_set(cache, CacheKey, now, data)
               /\ last_set' = [found |-> TRUE, ts |-> now, data |-> data,
                               failed |-> ~thr[t].answer.ok]
               /\ thr' = [thr EXCEPT ![t].ret = Some(data), ![t].pc = "done"]
        /\ UNCHANGED <<now, engine_vars>>

\* the call of a thread is over
CacheReturn ==
    \E t \in DOMAIN thr :
        /\ thr[t].pc = "done"
        /\ thr' = [thr EXCEPT ![t] = IdleThread]
        /\ UNCHANGED <<now, cache, last_set, engine_vars>>

\* time passes
Tick ==
    /\ now < MaxClock * TickSeconds
    /\ now' = now + TickSeconds
    /\ UNCHANGED <<cache, last_set, thr, engine_vars>>

NextCache ==
    \/ CacheSet \/ CacheGet \/ Fixtures \/ GetLookup \/ GetCheck \/ GetPop
    \/ FixturesFetch \/ FixturesStore \/ CacheReturn \/ Tick

\* one request thread: calls one after the other, with time passing
InitCache == PROJ = EmptyDict /\ memo = NoValue /\ Idle /\ CacheIdle(1)

SpecCache == InitCache /\ [][NextCache]_vars

\* the request threads of the server, in any interleaving
InitCacheRace ==
    PROJ = EmptyDict /\ memo = NoValue /\ Idle /\ CacheIdle(Cardinality(RequestThreads))

SpecCacheRace == InitCacheRace /\ [][NextCache]_vars

-----------------------------------------------------------------------------
(* Properties *)

REq(x, y) == x[1] * y[2] = y[1] * x[2]
In01(x) == RLe(RInt(0), x) /\ RLe(x, RInt(1))
Clamp01(x) == IF RLt(x, RInt(0)) THEN RInt(0) ELSE IF RLt(RInt(1), x) THEN RInt(1) ELSE x

Projected == fn = "make_projection"
Ranked == fn = "_obv_make_strength"

\* a fixture that counts for the team: both goals known, team on one side
Usable(fx, tid) ==
    /\ fx.goals.home # NULL
    /\ fx.goals.away # NULL
    /\ fx.teams.home.id = tid \/ fx.teams.away.id = tid

\* delta as the specification states it, from the statistics and the weights
ExpectedDelta(sh, sa) ==
    RSub(RAdd(RSub(RMul(sh.form_points, FORM_WEIGHT), RMul(sh.conceded_avg, DEF_WEIGHT)),
              HOME_ADV),
         RSub(RMul(sa.form_points, FORM_WEIGHT), RMul(sa.conceded_avg, DEF_WEIGHT)))

\* the mean of the two teams' values when both have games, 0 otherwise
ExpectedCombined(x, y) ==
    IF stats_home.games > 0 /\ stats_away.games > 0
    THEN Rat(x[1] * y[2] + y[1] * x[2], 2 * x[2] * y[2])
    ELSE RInt(0)

\* C1: when no fixture of the list is usable for the team (empty list, a null
\* goal in every fixture, or the team on neither side), team_stats_from_last
\* returns games = 0 and every averaged field exactly 0.
C1_NoUsableFixtureGivesZeros ==
    (fn = "team_stats_from_last"
        /\ \A i \in 1..Len(fixtures) : ~Usable(fixtures[i], team_id))
    => /\ stats.games = 0
       /\ stats.avg_for = RInt(0)
       /\ stats.avg_against = RInt(0)
       /\ stats.avg_total = RInt(0)
       /\ stats.pct_under35 = RInt(0)
       /\ stats.form_points = RInt(0)
       /\ stats.conceded_avg = RInt(0)

\* a list with a played fixture of two other teams and a fixture of the team
\* with a null goal has been reduced to the zero record
C1_Witness ==
    /\ fn = "team_stats_from_last"
    /\ \E i \in 1..Len(fixtures) :
        /\ fixtures[i].teams.home.id # team_id /\ fixtures[i].teams.away.id # team_id
        /\ fixtures[i].goals.home # NULL /\ fixtures[i].goals.away # NULL
    /\ \E i \in 1..Len(fixtures) :
        /\ fixtures[i].teams.home.id = team_id
        /\ fixtures[i].goals.home # NULL /\ fixtures[i].goals.away = NULL
    /\ stats.games = 0

\* C2: make_projection returns conf_under35 and conf_double_chance in [0,1]
\* and lean_conf_double_chance in [0.10, 0.49]; _obv_make_strength returns a
\* strength in [0,1].
C2_ConfidencesInRange ==
    /\ Projected =>
        /\ In01(proj.conf_under35)
        /\ In01(proj.conf_double_chance)
        /\ RLe(<<1, 10>>, proj.lean_conf_double_chance)
        /\ RLe(proj.lean_conf_double_chance, <<49, 100>>)
    /\ Ranked => In01(obv.strength)

\* a projection whose raw double-chance confidence 0.5 + |delta|/2 is above 1
C2_Witness ==
    /\ Projected
    /\ RLt(RInt(1), RAdd(<<1, 2>>, RDiv(RAbs(ExpectedDelta(stats_home, stats_away)), RInt(2))))
    /\ proj.conf_double_chance = RInt(1)
    /\ proj.lean_conf_double_chance = <<49, 100>>

\* C3: double_chance is non-null iff dc_side is non-null; it is "1X" exactly
\* when dc_side is "home" and "X2" exactly when dc_side is "away".
C3_DoubleChanceMatchesSide ==
    Projected =>
        /\ proj.double_chance # "None" <=> proj.dc_side # "None"
        /\ proj.double_chance = "1X" <=> proj.dc_side = "home"
        /\ proj.double_chance = "X2" <=> proj.dc_side = "away"

C3_Witness == Projected /\ proj.double_chance = "X2" /\ proj.dc_side = "away"

\* C4: lean_double_chance is "1X" or "X2" and lean_dc_side is "home" or
\* "away" in every projection, whether or not the decisive double chance
\* fired and whether or not the teams have data.
C4_LeanAlwaysSet ==
    Projected =>
        /\ proj.lean_double_chance \in {"1X", "X2"}
        /\ proj.lean_dc_side \in {"home", "away"}

\* neither team has data and no decisive call fired: the lean is set
C4_Witness ==
    /\ Projected
    /\ stats_home.games = 0
    /\ stats_away.games = 0
    /\ proj.double_chance = "None"
    /\ proj.lean_double_chance = "1X"
    /\ proj.lean_dc_side = "home"

\* C5: lean_dc_side is "home" iff delta = home_score - away_score >= 0, and
\* lean_double_chance is "1X" exactly when lean_dc_side is "home".
C5_LeanSign ==
    Projected =>
        /\ proj.lean_dc_side = "home" <=> RGe(ExpectedDelta(stats_home, stats_away), RInt(0))
        /\ proj.lean_double_chance = "1X" <=> proj.lean_dc_side = "home"

\* delta exactly 0 with data for the home team leans home
C5_Witness ==
    /\ Projected
    /\ stats_home.games > 0
    /\ ExpectedDelta(stats_home, stats_away) = RInt(0)
    /\ proj.lean_dc_side = "home"

\* C6: of two inputs with the same h2h record whose deltas have the same sign
\* (a delta of 0 counting with the positive ones, as the favourite is the home
\* team then), the one with the larger |delta| has a strength and a
\* conf_double_chance at least as large as the other's.
C6_MonotoneInDelta ==
    (/\ fn = "compare"
     /\ RGe(obv.delta, RInt(0)) <=> RGe(other.obv.delta, RInt(0))
     /\ RGe(RAbs(other.obv.delta), RAbs(obv.delta)))
    => /\ RGe(other.obv.strength, obv.strength)
       /\ RGe(other.proj.conf_double_chance, proj.conf_double_chance)

\* two away favourites reinforced by the head-to-head record, the second with
\* the strictly larger |delta|: it alone clears the threshold, and both its
\* strength and its conf_double_chance are strictly larger
C6_Witness ==
    /\ fn = "compare"
    /\ RLt(obv.delta, RInt(0))
    /\ RLt(RAbs(obv.delta), RAbs(other.obv.delta))
    /\ RLt(other.obv.delta, RInt(0))
    /\ h2h_has_games(h2h) /\ h2h.dominance = "away"
    /\ proj.double_chance = "None"
    /\ other.proj.double_chance = "X2"
    /\ RLt(proj.conf_double_chance, other.proj.conf_double_chance)
    /\ RLt(obv.strength, other.obv.strength)

\* C7: where the head-to-head reinforcement applies, conf_under35,
\* conf_double_chance and strength are at most 1.0 afterwards, for every
\* configured boost >= 0 and also when the value was already 1.0.
C7_BoostNeverAboveOne ==
    /\ (Projected /\ Truthy(h2h) /\ Get(h2h, "games", 0) > 0) =>
        /\ (proj.under35 /\ RGe(h2h.pct_under35, UNDER35_PCT_MIN))
              => RLe(proj.conf_under35, RInt(1))
        /\ (proj.dc_side # "None" /\ h2h.dominance = proj.dc_side)
              => RLe(proj.conf_double_chance, RInt(1))
    /\ (Ranked /\ Truthy(h2h) /\ Get(h2h, "games", 0) > 0 /\ h2h.dominance = obv.side)
        => RLe(obv.strength, RInt(1))

\* a boost of 1.5 applied on a double-chance confidence that was already 1.0
C7_Witness ==
    /\ Projected
    /\ H2H_DC_BOOST = <<3, 2>>
    /\ Truthy(h2h) /\ Get(h2h, "games", 0) > 0
    /\ proj.dc_side = "home" /\ h2h.dominance = "home"
    /\ RGe(ExpectedDelta(stats_home, stats_away), RInt(1))
    /\ proj.conf_double_chance = RInt(1)

\* C8: under35 is true iff combined_avg_total <= UNDER35_AVG_MAX and
\* combined_pct_under >= UNDER35_PCT_MIN and the larger of the two teams'
\* avg_total is below 3.2, the combined figures being the mean of the two
\* teams' values when both have games and 0 otherwise.
C8_UnderRule ==
    Projected =>
        (proj.under35 <=>
            /\ RLe(ExpectedCombined(stats_home.avg_total, stats_away.avg_total), UNDER35_AVG_MAX)
            /\ RGe(ExpectedCombined(stats_home.pct_under35, stats_away.pct_under35), UNDER35_PCT_MIN)
            /\ RLt(stats_home.avg_total, <<32, 10>>)
            /\ RLt(stats_away.avg_total, <<32, 10>>))

\* the veto: the combined figures pass, one team alone averages 3.2 or more
C8_Witness ==
    /\ Projected
    /\ RLe(ExpectedCombined(stats_home.avg_total, stats_away.avg_total), UNDER35_AVG_MAX)
    /\ RGe(ExpectedCombined(stats_home.pct_under35, stats_away.pct_under35), UNDER35_PCT_MIN)
    /\ RGe(stats_home.avg_total, <<32, 10>>)
    /\ RLt(stats_away.avg_total, <<32, 10>>)
    /\ proj.under35 = FALSE

\* the head-to-head record does not reinforce conf_under35
NoUnderBoost ==
    \/ ~Truthy(h2h)
    \/ Get(h2h, "games", 0) = 0
    \/ ~proj.under35
    \/ RLt(h2h.pct_under35, UNDER35_PCT_MIN)

\* C9: without head-to-head boost, conf_under35 is 0 when either team has
\* games = 0 and otherwise clamp01(0.5 + (UNDER35_AVG_MAX - combined_avg_total)
\* * 0.3 + (combined_pct_under - UNDER35_PCT_MIN) * 0.4) rounded to 2 decimals;
\* with the default thresholds, both teams at avg_total 2.0 and pct_under35
\* 1.0 and no h2h give under35 = true and conf_under35 = 0.79.
C9_ConfUnderFormula ==
    /\ (Projected /\ NoUnderBoost) =>
        proj.conf_under35 =
            IF stats_home.games = 0 \/ stats_away.games = 0
            THEN RInt(0)
            ELSE Round2(Clamp01(
                    RAdd(<<1, 2>>,
                         RAdd(RMul(RSub(UNDER35_AVG_MAX,
                                        ExpectedCombined(stats_home.avg_total,
                                                         stats_away.avg_total)),
                                   <<3, 10>>),
                              RMul(RSub(ExpectedCombined(stats_home.pct_under35,
                                                         stats_away.pct_under35),
                                        UNDER35_PCT_MIN),
                                   <<4, 10>>)))))
    /\ (/\ Projected
        /\ PROJ = EmptyDict
        /\ ~Truthy(h2h)
        /\ stats_home.games > 0 /\ stats_away.games > 0
        /\ stats_home.avg_total = RInt(2) /\ stats_away.avg_total = RInt(2)
        /\ stats_home.pct_under35 = RInt(1) /\ stats_away.pct_under35 = RInt(1))
       => proj.under35 /\ proj.conf_under35 = <<79, 100>>

\* Scenario A of the specification
C9_Witness ==
    /\ Projected
    /\ PROJ = EmptyDict
    /\ ~Truthy(h2h)
    /\ stats_home.games > 0 /\ stats_away.games > 0
    /\ stats_home.avg_total = RInt(2) /\ stats_away.avg_total = RInt(2)
    /\ stats_home.pct_under35 = RInt(1) /\ stats_away.pct_under35 = RInt(1)
    /\ proj.conf_under35 = <<79, 100>>

\* C10: under35 is true only when both teams have games > 0, whatever the
\* configured UNDER35_AVG_MAX and UNDER35_PCT_MIN; when both teams have
\* games = 0 the combined avg_total_goals is 0, conf_under35 is 0 and under35
\* is false.
C10_UnderNeedsGames ==
    Projected =>
        /\ proj.under35 => (stats_home.games > 0 /\ stats_away.games > 0)
        /\ (stats_home.games = 0 /\ stats_away.games = 0) =>
            /\ proj.combined.avg_total_goals = RInt(0)
            /\ proj.conf_under35 = RInt(0)
            /\ proj.under35 = FALSE

\* the head-to-head record does not reinforce conf_double_chance
NoDcBoost ==
    \/ ~Truthy(h2h)
    \/ Get(h2h, "games", 0) = 0
    \/ proj.dc_side = "None"
    \/ h2h.dominance # proj.dc_side

\* C11: with delta = (form_points_home * FORM_WEIGHT - conceded_avg_home *
\* DEF_WEIGHT + HOME_ADV) - (form_points_away * FORM_WEIGHT - conceded_avg_away
\* * DEF_WEIGHT): if delta >= DC_THRESHOLD the projection is "1X"/"home",
\* else if -delta >= DC_THRESHOLD it is "X2"/"away", and in both cases the
\* confidence before the head-to-head boost is clamp01(0.5 + |delta|/2), which
\* is returned to 2 decimals when no boost applies; otherwise both labels are
\* null and conf_double_chance is 0.  Home form 3.0 conceding 0.0 against away
\* form 0.0 conceding 2.0 is delta 4.9: "1X", "home", 1.0.
C11_DecisiveDoubleChance ==
    Projected =>
        LET delta == ExpectedDelta(stats_home, stats_away)
            before == Clamp01(RAdd(<<1, 2>>, RDiv(RAbs(delta), RInt(2))))
        IN  /\ RGe(delta, DC_THRESHOLD) =>
                /\ proj.double_chance = "1X" /\ proj.dc_side = "home"
                /\ dc_decision(delta).dc_conf = before
                /\ NoDcBoost => proj.conf_double_chance = Round2(before)
            /\ (~RGe(delta, DC_THRESHOLD) /\ RGe(RNeg(delta), DC_THRESHOLD)) =>
                /\ proj.double_chance = "X2" /\ proj.dc_side = "away"
                /\ dc_decision(delta).dc_conf = before
                /\ NoDcBoost => proj.conf_double_chance = Round2(before)
            /\ (~RGe(delta, DC_THRESHOLD) /\ ~RGe(RNeg(delta), DC_THRESHOLD)) =>
                /\ proj.double_chance = "None" /\ proj.dc_side = "None"
                /\ proj.conf_double_chance = RInt(0)
            /\ (/\ PROJ = EmptyDict
                /\ stats_home.form_points = RInt(3) /\ stats_home.conceded_avg = RInt(0)
                /\ stats_away.form_points = RInt(0) /\ stats_away.conceded_avg = RInt(2)) =>
                /\ delta = <<49, 10>>
                /\ proj.double_chance = "1X" /\ proj.dc_side = "home"
                /\ proj.conf_double_chance = RInt(1)

\* a decisive away call whose confidence is strictly between the threshold
\* value and 1, reached with all three teams' fixtures counted and no boost
C11_Witness ==
    /\ Projected
    /\ NoDcBoost
    /\ RGe(RNeg(ExpectedDelta(stats_home, stats_away)), DC_THRESHOLD)
    /\ proj.double_chance = "X2" /\ proj.dc_side = "away"
    /\ RLt(<<9, 10>>, proj.conf_double_chance)
    /\ RLt(proj.conf_double_chance, RInt(1))

\* the head-to-head record reinforces the ranker's favourite
ObvBoosted == Truthy(h2h) /\ Get(h2h, "games", 0) > 0 /\ h2h.dominance = obv.side

\* strength as the specification states it, before rounding
ExpectedStrength ==
    LET unboosted == Clamp01(RDiv(RAbs(ExpectedDelta(stats_home, stats_away)), RInt(2)))
    IN  IF ObvBoosted THEN RMin(RInt(1), RAdd(unboosted, <<1, 10>>)) ELSE unboosted

\* C14 as stated: the returned strength is clamp01(|delta| / 2.0), plus the
\* bonus clamped to 1 exactly when the h2h record has games > 0 and its
\* dominance equals side.
C14_StrengthUnrounded ==
    Ranked =>
        /\ obv.side = "home" <=> RGe(ExpectedDelta(stats_home, stats_away), RInt(0))
        /\ obv.strength = ExpectedStrength

\* C14, amended: _obv_make_strength returns side = "home" iff delta >= 0 and
\* strength = clamp01(|delta| / 2.0), plus 0.1 clamped to 1 exactly when the
\* h2h record has games > 0 and its dominance equals side, rounded to 2
\* decimals; with no H2H data or a non-matching dominance the strength is the
\* rounded unboosted value.
C14_StrengthRounded ==
    Ranked =>
        /\ obv.side = "home" <=> RGe(ExpectedDelta(stats_home, stats_away), RInt(0))
        /\ obv.side \in {"home", "away"}
        /\ obv.strength = Round2(ExpectedStrength)

\* a home favourite with a home-dominated record: the bonus applies, stays
\* below 1, and the value handed back is not the unrounded one
C14_Witness ==
    /\ Ranked
    /\ ObvBoosted
    /\ obv.side = "home"
    /\ RLt(ExpectedStrength, RInt(1))
    /\ obv.strength = Round2(ExpectedStrength)
    /\ obv.strength # ExpectedStrength

\* the invocation in progress has the function and the arguments of the one
\* that was kept
SameCall ==
    /\ Truthy(memo)
    /\ fn = memo.fn
    /\ fixtures = memo.fixtures
    /\ team_id = memo.team_id
    /\ stats_home = memo.stats_home
    /\ stats_away = memo.stats_away
    /\ fn \in {"make_projection", "_obv_make_strength"} => h2h = memo.h2h

C17_Dominance ==
    fn = "h2h_stats" =>
        /\ h2h.dominance \in {"home", "away", "none"}
        /\ h2h.dominance = "home" <=> h2h.home_wins > h2h.away_wins
        /\ h2h.dominance = "away" <=> h2h.away_wins > h2h.home_wins
        /\ h2h.dominance = "none" <=> h2h.home_wins = h2h.away_wins
        /\ h2h.home_wins + h2h.away_wins + h2h.draws = h2h.games
        /\ fixtures = <<>> =>
            h2h = [games |-> 0, pct_under35 |-> RInt(0), home_wins |-> 0,
                   away_wins |-> 0, draws |-> 0, dominance |-> "none"]

\* one win each and a draw: the draw does not break the tie
C17_Witness ==
    /\ fn = "h2h_stats"
    /\ h2h.home_wins = 1 /\ h2h.away_wins = 1 /\ h2h.draws = 1
    /\ h2h.dominance = "none"

\* the reorderings of a list of n elements
Perms(n) == {p \in [1..n -> 1..n] : \A i, j \in 1..n : p[i] = p[j] => i = j}

\* C18: team_stats_from_last is invariant under permutation of its fixture
\* list: every reordering of the same fixtures yields the same statistics for
\* the same team id.
C18_OrderIndependent ==
    fn = "team_stats_from_last" =>
        \A p \in Perms(Len(fixtures)) :
            team_stats_from_last([i \in 1..Len(fixtures) |-> fixtures[p[i]]], team_id) = stats

\* a win followed by a defeat, which is not the list read backwards
C18_Witness ==
    /\ fn = "team_stats_from_last"
    /\ Len(fixtures) >= 2
    /\ Usable(fixtures[1], team_id) /\ Usable(fixtures[2], team_id)
    /\ fixtures[1].teams.home.id = team_id /\ fixtures[1].teams.home.winner = "True"
    /\ fixtures[2].teams.away.id = team_id /\ fixtures[2].teams.away.winner = "False"
    /\ stats.games >= 2

RECURSIVE SumSeq(_)
SumSeq(s) == IF s = <<>> THEN 0 ELSE Head(s) + SumSeq(Tail(s))

BothGoalsKnown(fx) == fx.goals.home # NULL /\ fx.goals.away # NULL

\* the goals of the team and of its opponent in a fixture that counts, 0 in one
\* that does not
GoalsFor(fx, tid) ==
    IF ~Usable(fx, tid) THEN 0
    ELSE IF fx.teams.home.id = tid THEN fx.goals.home ELSE fx.goals.away

GoalsAgainst(fx, tid) ==
    IF ~Usable(fx, tid) THEN 0
    ELSE IF fx.teams.home.id = tid THEN fx.goals.away ELSE fx.goals.home

\* fixtures not yet played, or with one goal count missing
NullGoalFixtures == {fx \in FixtureSet : ~BothGoalsKnown(fx)}

\* the list with fx put in after its first k elements
InsertAt(s, k, fx) == SubSeq(s, 1, k) \o <<fx>> \o SubSeq(s, k + 1, Len(s))

\* every average is the sum over the fixtures that count divided by games
AveragesOverGames ==
    stats.games > 0 =>
        LET n == Len(fixtures)
            for == SumSeq([i \in 1..n |-> GoalsFor(fixtures[i], team_id)])
            against == SumSeq([i \in 1..n |-> GoalsAgainst(fixtures[i], team_id)])
        IN  /\ stats.avg_for = Rat(for, stats.games)
            /\ stats.avg_against = Rat(against, stats.games)
            /\ stats.avg_total = Rat(for + against, stats.games)
            /\ stats.conceded_avg = Rat(against, stats.games)

\* a fixture with a null goal added in front of the list or behind it changes
\* no field of the result
NullFixturesIgnored ==
    \A fx \in NullGoalFixtures : \A k \in {0, Len(fixtures)} :
        team_stats_from_last(InsertAt(fixtures, k, fx), team_id) = stats

\* C19 as stated: games equals the number of input fixtures with both goals
\* known, every average is the sum divided by games, and adding fixtures with
\* a null goal leaves every field unchanged.
C19_GamesCountsKnownGoals ==
    fn = "team_stats_from_last" =>
        /\ stats.games = Cardinality({i \in 1..Len(fixtures) : BothGoalsKnown(fixtures[i])})
        /\ AveragesOverGames
        /\ NullFixturesIgnored

\* C19, amended: games equals the number of input fixtures with both goals
\* known in which the team is the home or the away side; every average is the
\* corresponding sum over those fixtures divided by games, never by the length
\* of the list; adding fixtures with a null goal on either side leaves every
\* field of the result unchanged.
C19_GamesCountsUsable ==
    fn = "team_stats_from_last" =>
        /\ stats.games = Cardinality({i \in 1..Len(fixtures) : Usable(fixtures[i], team_id)})
        /\ AveragesOverGames
        /\ NullFixturesIgnored

\* a played fixture and one with a null goal: the average is the 2 goals of
\* the played one over 1 game, not over the 2 fixtures of the list
C19_Witness ==
    /\ fn = "team_stats_from_last"
    /\ Len(fixtures) = 2
    /\ \E i \in 1..2 : fixtures[i].teams.home.id = team_id /\ ~BothGoalsKnown(fixtures[i])
    /\ stats.games = 1
    /\ stats.avg_for = RInt(2)

\* the winner flag of the team in a fixture it plays
MyWinner(fx, tid) ==
    IF fx.teams.home.id = tid THEN fx.teams.home.winner ELSE fx.teams.away.winner

\* C20: team_stats_from_last credits each usable fixture with 3 points when
\* the team's winner flag is true, 1 when it is null and 0 when it is false,
\* form_points being the average of these, in [0, 3]; pct_under35 is the
\* fraction of usable fixtures with combined goals below 4, in [0, 1].
C20_PointsAndUnderShare ==
    fn = "team_stats_from_last" =>
        LET usable == {i \in 1..Len(fixtures) : Usable(fixtures[i], team_id)}
            won == {i \in usable : MyWinner(fixtures[i], team_id) = "True"}
            level == {i \in usable : MyWinner(fixtures[i], team_id) = "None"}
            low == {i \in usable : fixtures[i].goals.home + fixtures[i].goals.away < 4}
        IN  /\ usable # {} =>
                /\ stats.form_points =
                        Rat(3 * Cardinality(won) + Cardinality(level), Cardinality(usable))
                /\ stats.pct_under35 = Rat(Cardinality(low), Cardinality(usable))
            /\ RLe(RInt(0), stats.form_points) /\ RLe(stats.form_points, RInt(3))
            /\ In01(stats.pct_under35)

\* a fixture level at 2-2 that the team won on penalties and a 1-1 draw: 3 and
\* 1 points, one of the two fixtures under 3.5 goals
C20_Witness ==
    /\ fn = "team_stats_from_last"
    /\ Len(fixtures) = 2
    /\ Usable(fixtures[1], team_id) /\ Usable(fixtures[2], team_id)
    /\ fixtures[1].goals.home = 2 /\ fixtures[1].goals.away = 2
    /\ MyWinner(fixtures[1], team_id) = "True"
    /\ MyWinner(fixtures[2], team_id) = "None"
    /\ stats.form_points = RInt(2)
    /\ stats.pct_under35 = <<1, 2>>

\* the day's fixtures in the order obvious_games_calc goes through them
AllFixtures == day[LEAGUE_IDS.br_serie_a] \o day[LEAGUE_IDS.br_serie_b]

HasTeamIds(slot) == slot.fx.teams.home.id # 0 /\ slot.fx.teams.away.id # 0

\* the statistics of a team of a listed fixture: the zero record when the
\* request returned nothing
SlotStats(slot, side) ==
    LET last == IF side = "home" THEN slot.last_home ELSE slot.last_away
        tid == IF side = "home" THEN slot.fx.teams.home.id ELSE slot.fx.teams.away.id
    IN  IF last = <<>>
        THEN [games |-> 0, avg_for |-> RInt(0), avg_against |-> RInt(0),
              avg_total |-> RInt(0), pct_under35 |-> RInt(0), form_points |-> RInt(0),
              conceded_avg |-> RInt(0)]
        ELSE team_stats_from_last(last, tid)

\* the head-to-head record of a listed fixture: {"games": 0} when the request
\* returned nothing
SlotH2H(slot) ==
    IF slot.h2h_list = <<>> THEN [games |-> 0]
    ELSE h2h_stats(slot.h2h_list, slot.fx.teams.home.id, slot.fx.teams.away.id)

\* what _obv_make_strength returns for a listed fixture
SlotObv(slot) ==
    obv_make_strength(SlotStats(slot, "home"), SlotStats(slot, "away"), SlotH2H(slot))

\* a returned entry is the entry of the listed fixture
EntryOf(e, slot) ==
    /\ e.league = slot.fx.league.name
    /\ e.date_utc = slot.fx.fixture.date

\* C12: obvious_games_calc returns an entry for a fixture with valid team ids
\* iff that fixture's strength is >= min_strength: no returned entry is below
\* the minimum and no fixture that meets it is left out.  With no H2H and
\* min_strength 0.75, deltas 0.2 and 1.0 (strength 0.10, 0.50) are left out and
\* delta 2.5 (strength 1.0) is returned.
C12_KeptIffStrongEnough ==
    fn = "obvious_games_calc" =>
        LET all == AllFixtures
            Returned(i) == \E j \in 1..Len(payload.games) : EntryOf(payload.games[j], all[i])
        IN  /\ \A i \in 1..Len(all) :
                /\ HasTeamIds(all[i]) =>
                    (Returned(i) <=> RGe(SlotObv(all[i]).strength, min_strength))
                /\ ~HasTeamIds(all[i]) => ~Returned(i)
            /\ \A j \in 1..Len(payload.games) :
                /\ RGe(payload.games[j].strength, min_strength)
                /\ \E i \in 1..Len(all) :
                    /\ EntryOf(payload.games[j], all[i])
                    /\ payload.games[j].strength = SlotObv(all[i]).strength
            /\ Len(payload.games) =
                Cardinality({i \in 1..Len(all) :
                    HasTeamIds(all[i]) /\ RGe(SlotObv(all[i]).strength, min_strength)})
            /\ payload.count = Len(payload.games)
            /\ \A i \in 1..Len(all) :
                (HasTeamIds(all[i]) /\ all[i].h2h_list = <<>> /\ min_strength = <<3, 4>>) =>
                    /\ SlotObv(all[i]).delta = <<1, 5>> =>
                        SlotObv(all[i]).strength = <<1, 10>> /\ ~Returned(i)
                    /\ SlotObv(all[i]).delta = RInt(1) =>
                        SlotObv(all[i]).strength = <<1, 2>> /\ ~Returned(i)
                    /\ SlotObv(all[i]).delta = <<5, 2>> =>
                        SlotObv(all[i]).strength = RInt(1) /\ Returned(i)

\* two fixtures with team ids, the first at exactly the minimum of 0.75 and
\* the second at 0.50: the first alone is returned
C12_Witness ==
    /\ fn = "obvious_games_calc"
    /\ min_strength = <<3, 4>>
    /\ Len(AllFixtures) = 2
    /\ HasTeamIds(AllFixtures[1]) /\ HasTeamIds(AllFixtures[2])
    /\ SlotObv(AllFixtures[1]).strength = <<3, 4>>
    /\ SlotObv(AllFixtures[2]).strength = <<1, 2>>
    /\ Len(payload.games) = 1
    /\ EntryOf(payload.games[1], AllFixtures[1])

\* the place of a returned entry in the order the fixtures were supplied
\* (league order, then the order within the league)
InputPosition(e) ==
    IF e.league = LEAGUE_IDS.br_serie_a THEN e.date_utc
    ELSE Len(day[LEAGUE_IDS.br_serie_a]) + e.date_utc

\* C13: the games list of obvious_games_calc is sorted by strength in
\* non-increasing order, and entries of equal strength keep the order in which
\* their fixtures were supplied (league order, then fixture order within the
\* league).
C13_SortedStable ==
    fn = "obvious_games_calc" =>
        \A j, k \in 1..Len(payload.games) :
            j < k =>
                /\ RGe(payload.games[j].strength, payload.games[k].strength)
                /\ payload.games[j].strength = payload.games[k].strength =>
                    InputPosition(payload.games[j]) < InputPosition(payload.games[k])

\* two returned fixtures of equal strength below 1, one of each league: the
\* Serie A one comes first
C13_Witness ==
    /\ fn = "obvious_games_calc"
    /\ Len(payload.games) = 2
    /\ payload.games[1].strength = payload.games[2].strength
    /\ RLt(payload.games[1].strength, RInt(1))
    /\ payload.games[1].favorite_side # payload.games[2].favorite_side
    /\ payload.games[1].league = LEAGUE_IDS.br_serie_a
    /\ payload.games[2].league = LEAGUE_IDS.br_serie_b

\* a listed fixture with both ids and both names
HasIdsAndNames(slot) ==
    /\ HasTeamIds(slot)
    /\ slot.fx.teams.home.name # "" /\ slot.fx.teams.away.name # ""

\* C15: serie_b_projections_calc returns exactly one game entry per listed
\* fixture that has home/away ids and names, in input order, whatever the
\* outcome of the per-team and head-to-head requests: a failed or empty
\* request gives that fixture zero/neutral statistics and a projection and
\* leaves the entries of the other fixtures as they are; a fixture missing an
\* identifier is skipped alone.
C15_OneEntryPerFixture ==
    fn = "serie_b_projections_calc" =>
        LET valid == SelectSeq(day[LEAGUE_IDS.br_serie_b], HasIdsAndNames)
        IN  /\ Len(payload.games) = Len(valid)
            /\ \A j \in 1..Len(valid) :
                LET e == payload.games[j]
                    slot == valid[j]
                IN  /\ e.match.league = slot.fx.league.name
                    /\ e.match.date_utc = slot.fx.fixture.date
                    /\ e.match.home_id = slot.fx.teams.home.id
                    /\ e.match.away_id = slot.fx.teams.away.id
                    /\ e.match.home = slot.fx.teams.home.name
                    /\ e.match.away = slot.fx.teams.away.name
                    /\ e.metrics.recent.home = SlotStats(slot, "home")
                    /\ e.metrics.recent.away = SlotStats(slot, "away")
                    /\ e.metrics.h2h = SlotH2H(slot)
                    /\ e.projection = make_projection(SlotStats(slot, "home"),
                                                      SlotStats(slot, "away"), SlotH2H(slot))
                    /\ e.projection.lean_double_chance \in {"1X", "X2"}

\* two listed fixtures: every request of the first failed, the second has
\* data; both are returned in order, the first on the zero statistics
C15_Witness ==
    /\ fn = "serie_b_projections_calc"
    /\ Len(day[LEAGUE_IDS.br_serie_b]) = 2
    /\ day[LEAGUE_IDS.br_serie_b][1].last_home = <<>>
    /\ day[LEAGUE_IDS.br_serie_b][1].last_away = <<>>
    /\ day[LEAGUE_IDS.br_serie_b][1].h2h_list = <<>>
    /\ HasIdsAndNames(day[LEAGUE_IDS.br_serie_b][1])
    /\ Len(payload.games) = 2
    /\ payload.games[1].match.date_utc = 1
    /\ payload.games[1].metrics.recent.home.games = 0
    /\ payload.games[1].metrics.recent.away.games = 0
    /\ payload.games[1].projection.lean_double_chance = "1X"
    /\ payload.games[2].match.date_utc = 2
    /\ payload.games[2].metrics.recent.home.games > 0
    /\ payload.games[2].projection.double_chance = "1X"

\* the projection of the same statistics without a head-to-head record
WithoutH2H == make_projection(stats_home, stats_away, EmptyDict)

\* C21: the head-to-head reinforcement of make_projection changes a
\* confidence only under its condition: nothing is boosted with h2h absent or
\* h2h.games = 0; conf_under35 only if under35 is true and h2h.pct_under35 >=
\* UNDER35_PCT_MIN; conf_double_chance only if a decisive double_chance fired
\* and h2h.dominance equals dc_side.  Otherwise the confidences are those
\* without H2H, and under35, double_chance, dc_side and the lean fields never
\* depend on h2h.
C21_BoostOnlyUnderCondition ==
    Projected =>
        LET w == WithoutH2H IN
        /\ proj.under35 = w.under35
        /\ proj.double_chance = w.double_chance
        /\ proj.dc_side = w.dc_side
        /\ proj.lean_double_chance = w.lean_double_chance
        /\ proj.lean_dc_side = w.lean_dc_side
        /\ proj.lean_conf_double_chance = w.lean_conf_double_chance
        /\ (~Truthy(h2h) \/ Get(h2h, "games", 0) = 0) =>
            /\ proj.conf_under35 = w.conf_under35
            /\ proj.conf_double_chance = w.conf_double_chance
        /\ proj.conf_under35 # w.conf_under35 =>
            /\ Truthy(h2h) /\ Get(h2h, "games", 0) > 0
            /\ proj.under35
            /\ RGe(h2h.pct_under35, UNDER35_PCT_MIN)
            /\ RLt(w.conf_under35, proj.conf_under35)
        /\ proj.conf_double_chance # w.conf_double_chance =>
            /\ Truthy(h2h) /\ Get(h2h, "games", 0) > 0
            /\ proj.double_chance # "None"
            /\ h2h.dominance = proj.dc_side
            /\ RLt(w.conf_double_chance, proj.conf_double_chance)

\* a record with games in which every meeting stayed under 3.5 goals and the
\* away side dominates, against a decisive home call without under35: neither
\* confidence moves, though both had room to
C21_Witness ==
    /\ Projected
    /\ Truthy(h2h) /\ Get(h2h, "games", 0) > 0
    /\ h2h.pct_under35 = RInt(1)
    /\ h2h.dominance = "away"
    /\ ~proj.under35
    /\ proj.dc_side = "home"
    /\ RLt(RInt(0), proj.conf_under35) /\ RLt(proj.conf_under35, RInt(1))
    /\ RLt(proj.conf_double_chance, RInt(1))
    /\ proj.conf_under35 = WithoutH2H.conf_under35
    /\ proj.conf_double_chance = WithoutH2H.conf_double_chance

\* C22: for the same home and away statistics _obv_make_strength and
\* make_projection compute the same delta with the same weights: the ranker's
\* favourite side equals the projection's lean_dc_side, and a decisive dc_side
\* equals the ranker's side.
C22_RankerAgreesWithProjection ==
    fn = "compare" =>
        /\ obv.delta = ExpectedDelta(stats_home, stats_away)
        /\ obv.side = proj.lean_dc_side
        /\ proj.dc_side # "None" => proj.dc_side = obv.side
        /\ other.obv.delta = ExpectedDelta(other.stats_home, other.stats_away)
        /\ other.obv.side = other.proj.lean_dc_side
        /\ other.proj.dc_side # "None" => other.proj.dc_side = other.obv.side

\* a decisive away call on one input and a decisive home call on the other:
\* the ranker names the same side as the projection on both
C22_Witness ==
    /\ fn = "compare"
    /\ proj.dc_side = "away" /\ proj.lean_dc_side = "away"
    /\ obv.side = "away"
    /\ other.proj.dc_side = "home" /\ other.proj.lean_dc_side = "home"
    /\ other.obv.side = "home"

\* the strength of a listed fixture before _obv_make_strength rounds it
SlotUnroundedStrength(slot) ==
    LET delta == ExpectedDelta(SlotStats(slot, "home"), SlotStats(slot, "away"))
        side == IF RGe(delta, RInt(0)) THEN "home" ELSE "away"
        unboosted == Clamp01(RDiv(RAbs(delta), RInt(2)))
        h == SlotH2H(slot)
    IN  IF Get(h, "games", 0) > 0 /\ h.dominance = side
        THEN RMin(RInt(1), RAdd(unboosted, <<1, 10>>))
        ELSE unboosted

\* C23: rounding to 2 decimals is applied only to the values returned; the
\* threshold comparisons, among them the ranker's strength >= min_strength
\* filter of obvious_games_calc, operate on the unrounded value: a fixture with
\* team ids is returned iff its unrounded strength is >= min_strength, with
\* the strength rounded in the entry.
C23_FilterOnUnroundedStrength ==
    fn = "obvious_games_calc" =>
        \A i \in 1..Len(AllFixtures) :
            HasTeamIds(AllFixtures[i]) =>
                /\ (\E j \in 1..Len(payload.games) :
                        EntryOf(payload.games[j], AllFixtures[i]))
                    <=> RGe(SlotUnroundedStrength(AllFixtures[i]), min_strength)
                /\ \A j \in 1..Len(payload.games) :
                    EntryOf(payload.games[j], AllFixtures[i]) =>
                        payload.games[j].strength =
                            Round2(SlotUnroundedStrength(AllFixtures[i]))

\* C26: whenever make_projection returns a decisive double_chance, the lean
\* signal agrees with it (same label, same side) and conf_double_chance is at
\* least 0.5 and strictly greater than lean_conf_double_chance.
C26_LeanBelowDecisive ==
    (Projected /\ proj.double_chance # "None") =>
        /\ proj.lean_double_chance = proj.double_chance
        /\ proj.lean_dc_side = proj.dc_side
        /\ RGe(proj.conf_double_chance, <<1, 2>>)
        /\ RLt(proj.lean_conf_double_chance, proj.conf_double_chance)

\* a decisive away call just past the threshold, not reinforced: its
\* confidence is below 1 and the lean, on the same side, is below 0.5
C26_Witness ==
    /\ Projected
    /\ proj.double_chance = "X2" /\ proj.lean_double_chance = "X2"
    /\ proj.dc_side = "away" /\ proj.lean_dc_side = "away"
    /\ NoDcBoost
    /\ RLt(RAbs(ExpectedDelta(stats_home, stats_away)), RInt(1))
    /\ RLt(proj.conf_double_chance, RInt(1))
    /\ RLt(proj.lean_conf_double_chance, <<1, 2>>)

\* the played meetings of a list that the team `tid` won, on either side
WonBy(fxs, tid) ==
    {i \in 1..Len(fxs) :
        /\ BothGoalsKnown(fxs[i])
        /\ \/ fxs[i].teams.home.id = tid /\ fxs[i].teams.home.winner = "True"
           \/ fxs[i].teams.away.id = tid /\ fxs[i].teams.away.winner = "True"}

\* C29: in h2h_stats(meetings, home_id, away_id), home_wins counts exactly the
\* meetings won by the team identified by home_id and away_wins those won by
\* the team identified by away_id, whichever side each team played on in the
\* historical meeting.
C29_WinsByTeamId ==
    fn = "h2h_stats" =>
        /\ h2h.home_wins = Cardinality(WonBy(fixtures, HomeId))
        /\ h2h.away_wins = Cardinality(WonBy(fixtures, AwayId))

\* C30: make_projection never issues a decisive double_chance in favour of a
\* team without data: if a team's statistics have games = 0, the result never
\* has dc_side naming that team.
C30_NoDecisiveCallWithoutData ==
    Projected =>
        /\ stats_home.games = 0 => proj.dc_side # "home"
        /\ stats_away.games = 0 => proj.dc_side # "away"

\* what _cache_get is to return at time t when `ls` is the latest _cache_set
ExpectedGet(ls, t) ==
    IF ls.found /\ t - ls.ts <= CACHE_TTL_SECONDS THEN Some(ls.data) ELSE None

\* thread t is back from _cache_get, called on its own or by
\* fb_fixtures_by_league_date, and nothing was stored since
BackFromGet(t) ==
    \/ thr[t].op = "_cache_get" /\ thr[t].pc = "done"
    \/ thr[t].pc = "fetch"

\* thread t is back from fb_fixtures_by_league_date
BackFromFixtures(t) == thr[t].op = "fb_fixtures_by_league_date" /\ thr[t].pc = "done"

\* C24: over any sequence of _cache_set and _cache_get calls with advancing
\* time, _cache_get(key) returns the data of the latest _cache_set(key) iff that
\* set happened at most CACHE_TTL_SECONDS (60) seconds earlier, and otherwise
\* returns None and removes the entry; fb_fixtures_by_league_date on a miss
\* fetches from upstream, stores and returns exactly what a live fetch returns,
\* and on a hit returns the stored list without contacting upstream.
C24_CacheGetWithinTtl ==
    \A t \in DOMAIN thr :
        /\ BackFromGet(t) =>
            /\ thr[t].cached = ExpectedGet(last_set, thr[t].at)
            /\ thr[t].cached.is_none => CacheKey \notin DOMAIN cache
        /\ BackFromFixtures(t) =>
            /\ thr[t].contacted <=> thr[t].cached.is_none
            /\ thr[t].contacted =>
                /\ thr[t].ret = Some(fb_fixture_generic(thr[t].answer))
                /\ cache_item(cache, CacheKey).found
                /\ cache_item(cache, CacheKey).data = fb_fixture_generic(thr[t].answer)
            /\ ~thr[t].contacted =>
                /\ thr[t].ret = Some(thr[t].before.data)
                /\ thr[t].at - thr[t].before.ts <= CACHE_TTL_SECONDS

\* a call exactly 60 seconds after the list was stored: the stored list is
\* returned and upstream is not contacted
C24_Witness ==
    \E t \in DOMAIN thr :
        /\ BackFromFixtures(t)
        /\ ~thr[t].contacted
        /\ thr[t].at - thr[t].before.ts = CACHE_TTL_SECONDS
        /\ thr[t].ret.value # <<>>

\* C27: with concurrent request threads calling _cache_get and _cache_set on
\* the same key in any interleaving, _cache_get never removes an entry that is
\* still within its TTL: an entry written by _cache_set stays retrievable
\* until 60 seconds after it was written (or until a newer _cache_set
\* overwrites it).
C27_FreshEntryStays ==
    (last_set.found /\ now - last_set.ts <= CACHE_TTL_SECONDS) =>
        cache_item(cache, CacheKey) =
            [found |-> TRUE, ts |-> last_set.ts, data |-> last_set.data]

\* C28: when the upstream fetch inside fb_fixtures_by_league_date fails, the
\* resulting empty list is stored in the cache like a successful answer: every
\* call for the same league and date during the following 60 seconds returns
\* the empty list without contacting upstream again, and only a call after the
\* TTL retries the fetch.
C28_FailureIsCached ==
    \A t \in DOMAIN thr :
        BackFromFixtures(t) =>
            /\ (thr[t].contacted /\ ~thr[t].answer.ok) =>
                /\ thr[t].ret = Some(<<>>)
                /\ cache_item(cache, CacheKey).found
                /\ cache_item(cache, CacheKey).data = <<>>
                /\ last_set.failed
            /\ (thr[t].before.found /\ thr[t].before.failed) =>
                IF thr[t].at - thr[t].before.ts <= CACHE_TTL_SECONDS
                THEN ~thr[t].contacted /\ thr[t].ret = Some(<<>>)
                ELSE thr[t].contacted

\* a call exactly 60 seconds after a failed fetch: the empty list, and no
\* request upstream
C28_Witness ==
    \E t \in DOMAIN thr :
        /\ BackFromFixtures(t)
        /\ thr[t].before.found /\ thr[t].before.failed
        /\ thr[t].at - thr[t].before.ts = CACHE_TTL_SECONDS
        /\ ~thr[t].contacted
        /\ thr[t].ret = Some(<<>>)

\* C25: the thresholds block of the payload returned by
\* serie_b_projections_calc reports the configuration actually used to compute
\* that payload's projections: each reported constant equals the value
\* make_projection used, and the reported head-to-head window (H2H_LAST) equals
\* the h2h_last window with which the head-to-head history was fetched.
C25_ThresholdsReportUsed ==
    fn = "serie_b_projections_calc" =>
        /\ payload.thresholds.UNDER35_AVG_MAX = UNDER35_AVG_MAX
        /\ payload.thresholds.UNDER35_PCT_MIN = UNDER35_PCT_MIN
        /\ payload.thresholds.FORM_WEIGHT = FORM_WEIGHT
        /\ payload.thresholds.DEF_WEIGHT = DEF_WEIGHT
        /\ payload.thresholds.HOME_ADV = HOME_ADV
        /\ payload.thresholds.DC_THRESHOLD = DC_THRESHOLD
        /\ payload.thresholds.H2H_UNDER_BOOST = H2H_UNDER_BOOST
        /\ payload.thresholds.H2H_DC_BOOST = H2H_DC_BOOST
        /\ payload.thresholds.H2H_LAST = h2h_last

====
